---- MODULE Spec2Model ----
(***************************************************************************)
(* The MI2 protocol engine of vscode-amiga-debug: the command correlator   *)
(* (sendCommand / handlers), the stdout demultiplexer (stdout, onOutput,   *)
(* onOutputPartial), the line classifier (nonOutput, gdbMatch) and the     *)
(* event router (the dispatch inside onOutput).                            *)
(*                                                                         *)
(* Text is a sequence of lexemes.  A lexeme is one character ("1", "^",    *)
(* "~", "\n", a quote, a letter) or one word that neither the classifier   *)
(* nor the demultiplexer looks into ("done", "error", ",msg=", "(gdb)",    *)
(* "undefined", a command text).  A chunk boundary may fall between any    *)
(* two lexemes.                                                            *)
(***************************************************************************)
EXTENDS Integers, Sequences, FiniteSets, TLC

(* ------------------------------ bounds --------------------------------- *)
\* sendCommand stops being called once this many tokens were allocated
MaxToken == 3
\* connect is given at most this many setup commands
MaxSetup == 1
\* the subprocess writes at most this many lines before they are delivered
MaxLines == 2
\* a written text reaches the stdout callback in at most this many chunks
MaxChunks == 2
\* stream records accumulated in `output` before the subprocess pauses
MaxOutput == 2
\* records the subprocess writes between two replies of one text
MaxBurst == 3
\* setup commands given to connect when their order is looked at
MaxLaunch == 2
\* calls of stop, detach and abort on one engine
MaxTimers == 1
\* longest list of commands given to restart
MaxRestart == 2

(* ------------------------------ lexemes -------------------------------- *)
NL == "\n"
QUOTE == "\""
BACKSLASH == "\\"
Digits == {"0", "1", "2", "3", "4", "5", "6", "7", "8", "9"}
AsyncMarkers == {"*", "+", "="}
StreamMarkers == {"~", "@", "&"}
ResultClasses == {"done", "running", "connected", "error", "exit"}
FieldKeys == {",msg=", ",reason=", ",id=", ",group-id=", ",exit-code=",
              ",bkpt={number="}

DigitVal(c) ==
  CASE c = "0" -> 0 [] c = "1" -> 1 [] c = "2" -> 2 [] c = "3" -> 3
    [] c = "4" -> 4 [] c = "5" -> 5 [] c = "6" -> 6 [] c = "7" -> 7
    [] c = "8" -> 8 [] c = "9" -> 9

DigitChar(n) ==
  CASE n = 0 -> "0" [] n = 1 -> "1" [] n = 2 -> "2" [] n = 3 -> "3"
    [] n = 4 -> "4" [] n = 5 -> "5" [] n = 6 -> "6" [] n = 7 -> "7"
    [] n = 8 -> "8" [] n = 9 -> "9"

\* parseInt of a non-empty run of decimal digits
RECURSIVE parseInt(_)
parseInt(ds) ==
  IF ds = <<>> THEN 0
  ELSE 10 * parseInt(SubSeq(ds, 1, Len(ds) - 1)) + DigitVal(ds[Len(ds)])

\* string conversion of a token number (sel + "-" + command)
RECURSIVE NumToStr(_)
NumToStr(n) ==
  IF n < 10 THEN <<DigitChar(n)>>
  ELSE NumToStr(n \div 10) \o <<DigitChar(n % 10)>>

\* length of the leading run of digits, the greedy match of \d*
RECURSIVE LeadingDigits(_)
LeadingDigits(s) ==
  IF s # <<>> /\ Head(s) \in Digits THEN 1 + LeadingDigits(Tail(s)) ELSE 0

\* String.prototype.lastIndexOf, 1-based; 0 when c does not occur
RECURSIVE lastIndexOf(_, _)
lastIndexOf(s, c) ==
  IF s = <<>> THEN 0
  ELSE IF s[Len(s)] = c THEN Len(s)
  ELSE lastIndexOf(SubSeq(s, 1, Len(s) - 1), c)

\* String.prototype.indexOf, 1-based; 0 when c does not occur
RECURSIVE indexOf(_, _)
indexOf(s, c) ==
  IF s = <<>> THEN 0
  ELSE IF Head(s) = c THEN 1
  ELSE LET r == indexOf(Tail(s), c) IN IF r = 0 THEN 0 ELSE r + 1

\* String.prototype.split("\n"): always at least one (possibly empty) piece
RECURSIVE split(_)
split(s) ==
  LET i == indexOf(s, NL) IN
  IF i = 0 THEN <<s>>
  ELSE <<SubSeq(s, 1, i - 1)>> \o split(SubSeq(s, i + 1, Len(s)))

(* ----------------------------- classifier ------------------------------ *)
\* /^(?:\d*|undefined)[\*\+\=]|[\~\@\&\^]/ : the first alternative is
\* anchored at the line start, the second one is not anchored at all
nonOutput(line) ==
  LET d == LeadingDigits(line) IN
  \/ Len(line) > d /\ line[d + 1] \in AsyncMarkers
  \/ Len(line) >= 2 /\ line[1] = "undefined" /\ line[2] \in AsyncMarkers
  \/ \E i \in 1..Len(line) : line[i] \in StreamMarkers \cup {"^"}

\* /(?:\d*|undefined)\(gdb\)/ : not anchored, the prefix may be empty
gdbMatch(line) == \E i \in 1..Len(line) : line[i] = "(gdb)"

couldBeOutput(line) == ~nonOutput(line)

(* ------------------------- protocol parser ----------------------------- *)
\* An absent value (JavaScript undefined) is the empty sequence, a present
\* value v is <<v>>.
Absent == <<>>
Some(v) == <<v>>

\* the content pushed for a record that has no content field
JSUndefined == <<"<undefined>">>

Unescape(c) == IF c = "n" THEN NL ELSE c

\* a C string, read from just after its opening quote
RECURSIVE parseCString(_)
parseCString(s) ==
  IF s = <<>> THEN [content |-> <<>>, rest |-> <<>>]
  ELSE IF Head(s) = QUOTE THEN [content |-> <<>>, rest |-> Tail(s)]
  ELSE IF Head(s) = BACKSLASH /\ Len(s) >= 2
       THEN LET r == parseCString(SubSeq(s, 3, Len(s)))
            IN  [content |-> <<Unescape(s[2])>> \o r.content, rest |-> r.rest]
  ELSE LET r == parseCString(Tail(s))
       IN  [content |-> <<Head(s)>> \o r.content, rest |-> r.rest]

FieldName(key) ==
  CASE key = ",msg=" -> "msg" [] key = ",reason=" -> "reason"
    [] key = ",id=" -> "id" [] key = ",group-id=" -> "group-id"
    [] key = ",exit-code=" -> "exit-code"
    [] key = ",bkpt={number=" -> "bkpt.number"

\* name="value" pairs, in order; parsing stops at the first malformed pair
RECURSIVE parseResults(_)
parseResults(s) ==
  IF Len(s) >= 2 /\ s[1] \in FieldKeys /\ s[2] = QUOTE
  THEN LET r == parseCString(SubSeq(s, 3, Len(s)))
       IN  <<[name |-> FieldName(s[1]), value |-> r.content]>>
             \o parseResults(r.rest)
  ELSE <<>>

EmptyNode ==
  [token |-> Absent, outOfBandRecord |-> <<>>, resultRecords |-> Absent,
   output |-> <<>>]

AsyncType(m) == CASE m = "*" -> "exec" [] m = "+" -> "status" [] m = "=" -> "notify"
StreamType(m) == CASE m = "~" -> "console" [] m = "@" -> "target" [] m = "&" -> "log"

\* One in-band line to one record: an optional token (leading digits), then
\* a result record (^class,...), an exec/notify record (*class,... =class,...)
\* or a stream record (~"..." @"..." &"...").  The text prefix "undefined"
\* stands for an absent token in front of an exec/notify marker only.  A line
\* that starts with none of these parses to the empty record.
parseMI(line) ==
  LET d == LeadingDigits(line)
      undef == d = 0 /\ line # <<>> /\ Head(line) = "undefined"
      p == IF undef THEN 1 ELSE d
      token == IF d > 0 THEN Some(parseInt(SubSeq(line, 1, d))) ELSE Absent
      after == SubSeq(line, p + 1, Len(line))
      m == IF after = <<>> THEN "" ELSE Head(after)
      body == IF after = <<>> THEN <<>> ELSE Tail(after)
  IN  IF m \in AsyncMarkers
      THEN [EmptyNode EXCEPT
              !.token = token,
              !.outOfBandRecord =
                 <<[isStream |-> FALSE, type |-> AsyncType(m),
                    asyncClass |-> IF body = <<>> THEN "" ELSE Head(body),
                    content |-> JSUndefined,
                    output |-> IF body = <<>> THEN <<>>
                               ELSE parseResults(Tail(body))]>>]
      ELSE IF m \in StreamMarkers /\ ~undef /\ body # <<>> /\ Head(body) = QUOTE
      THEN [EmptyNode EXCEPT
              !.token = token,
              !.outOfBandRecord =
                 <<[isStream |-> TRUE, type |-> StreamType(m),
                    asyncClass |-> "",
                    content |-> parseCString(Tail(body)).content,
                    output |-> <<>>]>>]
      ELSE IF m = "^" /\ ~undef /\ body # <<>> /\ Head(body) \in ResultClasses
      THEN [EmptyNode EXCEPT
              !.token = token,
              !.resultRecords =
                 Some([resultClass |-> Head(body),
                       results |-> parseResults(Tail(body))])]
      ELSE EmptyNode

\* the value of the first pair called name: Absent, or Some(value)
RECURSIVE valueOf(_, _)
valueOf(pairs, name) ==
  IF pairs = <<>> THEN Absent
  ELSE IF Head(pairs).name = name THEN Some(Head(pairs).value)
  ELSE valueOf(Tail(pairs), name)

\* MINode.result(path)
result(node, name) ==
  IF node.resultRecords = Absent THEN Absent
  ELSE valueOf(node.resultRecords[1].results, name)

\* MINode.record(path): a field of the first out-of-band record
record(node, name) ==
  IF node.outOfBandRecord = <<>> THEN Absent
  ELSE valueOf(node.outOfBandRecord[1].output, name)

\* the text a value turns into when it is concatenated into a message
ToText(opt) == IF opt = Absent THEN <<"undefined">> ELSE opt[1]

\* JSON.stringify(parsed), reduced to the token and the classes
stringify(node) ==
  <<"{">> \o (IF node.token = Absent THEN <<>> ELSE NumToStr(node.token[1]))
    \o (IF node.resultRecords = Absent THEN <<>>
        ELSE <<node.resultRecords[1].resultClass>>)
    \o [i \in 1..Len(node.outOfBandRecord) |->
          IF node.outOfBandRecord[i].isStream THEN node.outOfBandRecord[i].type
          ELSE node.outOfBandRecord[i].asyncClass]
    \o <<"}">>

\* a || b on strings: an absent or empty string is falsy
OrElse(opt, fallback) ==
  IF opt = Absent \/ opt[1] = <<>> THEN fallback ELSE opt[1]

(* --------------------------- engine state ------------------------------ *)
VARIABLES
  \* fields of the MI2 object
  currentToken,   \* the next token sendCommand allocates
  handlers,       \* token -> the closure sendCommand registered
  buffer,         \* stdout text received after the last newline
  output,         \* stream records accumulated for the next handler
  process,        \* "unstarted" (the field is undefined), "running", "exited"
  printCalls,
  debugOutput,
  connectAll,     \* the Promise.all of connect: its state and the tokens awaited
  timers,         \* the grace timers armed by stop, detach and abort
  listeners,      \* one-shot listeners of abort waiting for generic-stopped
  inserts,        \* token -> the breakpoint its addBreakPoint callback holds
  sequences,      \* token -> the commands left to the callback of restart
  \* what the engine did, for the properties
  calls,          \* the calls of sendCommand: token, command, subprocess there
  wire,           \* the lines written to the subprocess input, in order
  promises,       \* token -> every attempt to settle the promise of sendCommand
  events,         \* the events emitted since the last text was written
  consumed,       \* the pieces of text stdout handed on since then
  \* the subprocess side of the stdout pipe
  pipe,           \* text written by the subprocess and not yet delivered
  chunks,         \* deliveries made of the text last written
  snap            \* the engine and the text when that text was written

vars == <<currentToken, handlers, buffer, output, process, printCalls,
          debugOutput, connectAll, timers, listeners, inserts, sequences, calls,
          wire, promises, events, consumed, pipe, chunks, snap>>

\* the engine as one value, for the operators that model its methods
Eng ==
  [currentToken |-> currentToken, handlers |-> handlers, buffer |-> buffer,
   output |-> output, process |-> process, printCalls |-> printCalls,
   debugOutput |-> debugOutput, connectAll |-> connectAll,
   timers |-> timers, listeners |-> listeners, inserts |-> inserts,
   sequences |-> sequences,
   calls |-> calls,
   wire |-> wire,
   promises |-> promises, events |-> events, consumed |-> consumed]

Install(e) ==
  /\ currentToken' = e.currentToken
  /\ handlers' = e.handlers
  /\ buffer' = e.buffer
  /\ output' = e.output
  /\ process' = e.process
  /\ printCalls' = e.printCalls
  /\ debugOutput' = e.debugOutput
  /\ connectAll' = e.connectAll
  /\ timers' = e.timers
  /\ listeners' = e.listeners
  /\ inserts' = e.inserts
  /\ sequences' = e.sequences
  /\ calls' = e.calls
  /\ wire' = e.wire
  /\ promises' = e.promises
  /\ events' = e.events
  /\ consumed' = e.consumed

\* an event, tagged with the piece of stdout text that caused it (0: none)
Ev(name, arg, src) == [ev |-> name, arg |-> arg, src |-> src]

Here(e) == Len(e.consumed)

\* EventEmitter.emit
emit(e, name, arg) == [e EXCEPT !.events = Append(@, Ev(name, arg, Here(e)))]

logNoNewLine(e, type, msg) == emit(e, "msg", [type |-> type, msg |-> msg])

\* log appends a newline to a message that does not end with one
LogText(msg) ==
  IF msg # <<>> /\ msg[Len(msg)] = NL THEN msg ELSE msg \o <<NL>>

log(e, type, msg) == emit(e, "msg", [type |-> type, msg |-> LogText(msg)])

(* ------------------------- command correlator -------------------------- *)
\* process.stdin.write(raw + "\n"); with no subprocess the property access
\* on the undefined field throws
sendRaw(e, raw) ==
  LET e1 == IF e.printCalls THEN log(e, "log", <<"=> ">> \o raw) ELSE e IN
  IF e1.process = "unstarted" THEN e1
  ELSE [e1 EXCEPT !.wire = Append(@, raw \o <<NL>>)]

\* One call of resolve or reject on the promise sendCommand returned for
\* token sel.  Only the first call on a promise takes effect.
Attempt(e, sel, how, value, by) ==
  LET first == e.promises[sel] = <<>>
      a == [how |-> how, by |-> by]
      e1 == emit(e, how, [token |-> sel, value |-> value, by |-> by,
                          first |-> first,
                          owner |-> e.handlers[sel].owner,
                          command |-> e.handlers[sel].command,
                          suppressFailure |-> e.handlers[sel].suppressFailure])
  IN  [e1 EXCEPT !.promises[sel] = Append(@, a)]

MIError(message, source) == [message |-> message, source |-> source]

\* sendCommand that reads the token without advancing it
sendCommand_sameToken(e, command, suppressFailure, owner) ==
  LET sel == e.currentToken
      e1 == [e EXCEPT
               !.handlers = (sel :> [command |-> command,
                                     suppressFailure |-> suppressFailure,
                                     owner |-> owner]) @@ @,
               !.promises = (sel :> <<>>) @@ @,
               !.calls = Append(@, [sel |-> sel, command |-> command,
                                    suppressFailure |-> suppressFailure,
                                    started |-> e.process # "unstarted"])]
  IN  sendRaw(e1, NumToStr(sel) \o <<"-">> \o command)

\* sendCommand: the token is taken and the closure registered before the
\* write; a write that throws rejects the promise from its executor
sendCommand(e, command, suppressFailure, owner) ==
  LET sel == e.currentToken
      e1 == [e EXCEPT
               !.currentToken = sel + 1,
               !.handlers = (sel :> [command |-> command,
                                     suppressFailure |-> suppressFailure,
                                     owner |-> owner]) @@ @,
               !.promises = (sel :> <<>>) @@ @,
               !.calls = Append(@, [sel |-> sel, command |-> command,
                                    suppressFailure |-> suppressFailure,
                                    started |-> e.process # "unstarted"])]
      e2 == sendRaw(e1, NumToStr(sel) \o <<"-">> \o command)
  IN  IF e1.process = "unstarted"
      THEN Attempt(e2, sel, "reject", MIError(<<"TypeError">>, <<>>), "throw")
      ELSE e2

\* a closure that resolves with whatever record it is given
handler_resolves(e, sel, node) == Attempt(e, sel, "resolve", node, "handler")

\* a closure that does not look at suppressFailure
handler_ignoresSuppress(e, sel, node) ==
  IF node.resultRecords # Absent /\ node.resultRecords[1].resultClass = "error"
  THEN Attempt(e, sel, "reject",
               MIError(OrElse(result(node, "msg"), <<"Internal error">>),
                       e.handlers[sel].command),
               "handler")
  ELSE Attempt(e, sel, "resolve", node, "handler")

\* the closure of sendCommand, called with the record that carries its token
handler(e, sel, node) ==
  LET h == e.handlers[sel] IN
  IF node.resultRecords # Absent /\ node.resultRecords[1].resultClass = "error"
  THEN IF h.suppressFailure
       THEN Attempt(log(e, "stderr",
                        <<"WARNING: Error executing command '">>
                          \o h.command \o <<"'">>),
                    sel, "resolve", node, "handler")
       ELSE Attempt(e, sel, "reject",
                    MIError(OrElse(result(node, "msg"), <<"Internal error">>),
                            h.command),
                    "handler")
  ELSE Attempt(e, sel, "resolve", node, "handler")

(* ----------------------------- event router ---------------------------- *)
trace == TRUE

\* Number(text): the number, or Absent for NaN
Number(opt) ==
  IF opt # Absent /\ opt[1] # <<>> /\ LeadingDigits(opt[1]) = Len(opt[1])
  THEN Some(parseInt(opt[1])) ELSE Absent

\* the event of a stop reason
reasonEvent(e, parsed, reason) ==
  IF reason = Some(<<"breakpoint-hit">>) THEN emit(e, "breakpoint", parsed)
  ELSE IF reason = Some(<<"end-stepping-range">>)
  THEN emit(e, "step-end", parsed)
  ELSE IF reason = Some(<<"function-finished">>)
  THEN emit(e, "step-out-end", parsed)
  ELSE IF reason = Some(<<"signal-received">>)
  THEN emit(e, "signal-stop", parsed)
  ELSE IF reason = Some(<<"exited-normally">>)
  THEN emit(e, "exited-normally", parsed)
  ELSE IF reason = Some(<<"exited">>)
  THEN emit(log(e, "stderr",
                <<"Program exited with code ">>
                  \o ToText(record(parsed, "exit-code"))),
            "exited-normally", parsed)
  ELSE emit(log(e, "console",
                <<"Not implemented stop reason (assuming exception): ">>
                  \o ToText(reason)),
            "stopped", parsed)

\* the reason is logged when trace is set
stopLog(e, reason) ==
  IF trace THEN log(e, "stderr", <<"stop: ">> \o ToText(reason)) ELSE e

\* the dispatch that raises no generic-stopped event
stopped_noGeneric(e, parsed) ==
  reasonEvent(stopLog(e, record(parsed, "reason")), parsed,
              record(parsed, "reason"))

KillCommand == <<"interpreter-exec console \"kill\"">>
ExitCommand == <<"gdb-exit">>
InterruptCommand == <<"exec-interrupt">>

\* killAndExit up to its first await, once for each of n listeners
RECURSIVE killAndExit(_, _)
killAndExit(e, n) ==
  IF n = 0 THEN e
  ELSE killAndExit(sendCommand(e, KillCommand, FALSE, "kill"), n - 1)

\* listeners that stay registered after they ran
fireOnce_keep(e) == killAndExit(e, e.listeners)

\* the calls of abort whose listeners ran await the kill requests sent from
\* token base on, in the order the listeners were registered
awaitKills(e, base) ==
  [e EXCEPT !.timers =
     [i \in DOMAIN e.timers |->
        IF e.timers[i].listening
        THEN [e.timers[i] EXCEPT
                !.listening = FALSE,
                !.awaits = base + Cardinality({j \in 1..(i - 1) :
                                                e.timers[j].listening})]
        ELSE e.timers[i]]]

\* emit("generic-stopped") runs the listeners abort registered with once:
\* each is removed and runs killAndExit
fireOnce(e) ==
  awaitKills(killAndExit([e EXCEPT !.listeners = 0], e.listeners),
             e.currentToken)

\* the dispatch on the reason of a *stopped record
stopped(e, parsed) ==
  fireOnce(emit(reasonEvent(stopLog(e, record(parsed, "reason")), parsed,
                            record(parsed, "reason")),
                "generic-stopped", parsed))

\* one out-of-band record of a parsed line
route(e, parsed, rec) ==
  IF rec.isStream THEN log(e, rec.type, rec.content)
  ELSE
    LET e1 ==
          IF rec.type = "exec"
          THEN LET x == emit(e, "exec-async-output", parsed) IN
               IF rec.asyncClass = "running" THEN emit(x, "running", parsed)
               ELSE IF rec.asyncClass = "stopped" THEN stopped(x, parsed)
               ELSE log(x, "log", stringify(parsed))
          ELSE IF rec.type = "notify"
          THEN LET tid == Number(record(parsed, "id"))
                   gid == Number(record(parsed, "group-id"))
               IN  IF rec.asyncClass = "thread-created"
                   THEN emit(e, "thread-created",
                             [threadId |-> tid, threadGroupId |-> gid])
                   ELSE IF rec.asyncClass = "thread-exited"
                   THEN emit(e, "thread-exited",
                             [threadId |-> tid, threadGroupId |-> gid])
                   ELSE IF rec.asyncClass = "thread-selected"
                   THEN emit(e, "thread-selected", [threadId |-> tid])
                   ELSE e
          ELSE e
    IN  [e1 EXCEPT !.output = <<>>]

RECURSIVE routeAll(_, _, _)
routeAll(e, parsed, i) ==
  IF i > Len(parsed.outOfBandRecord) THEN e
  ELSE routeAll(route(e, parsed, parsed.outOfBandRecord[i]), parsed, i + 1)

\* the truth value of an array: every array is truthy, the empty one too
Truthy(array) == TRUE

\* every out-of-band record of the line adds its content to `output`
accumulate(e, parsed) ==
  LET oob == parsed.outOfBandRecord IN
  IF Truthy(oob)
  THEN [e EXCEPT !.output = @ \o [i \in 1..Len(oob) |-> oob[i].content]]
  ELSE e

\* the record carries the token of a registered closure
hits(e, parsed) ==
  parsed.token # Absent /\ parsed.token[1] \in DOMAIN e.handlers

\* the record as the closure receives it: with the accumulated output
withOutput(e, parsed) ==
  IF hits(e, parsed) THEN [parsed EXCEPT !.output = e.output] ELSE parsed

\* correlate that leaves the closure in the table
correlate_keep(e, parsed) ==
  IF hits(e, parsed)
  THEN [handler(e, parsed.token[1], withOutput(e, parsed))
          EXCEPT !.output = <<>>]
  ELSE e

\* correlate that takes the oldest pending closure, whatever the token
correlate_fifo(e, parsed) ==
  IF hits(e, parsed)
  THEN LET sel == CHOOSE t \in DOMAIN e.handlers :
                    \A u \in DOMAIN e.handlers : t <= u
           c == handler(e, sel, withOutput(e, parsed))
       IN  [c EXCEPT !.handlers = [t \in DOMAIN @ \ {sel} |-> @[t]],
                     !.output = <<>>]
  ELSE e

\* correlate that hands a record with an unknown token to the oldest
\* pending closure
correlate_orOldest(e, parsed) ==
  IF parsed.token # Absent /\ DOMAIN e.handlers # {}
  THEN LET sel == IF parsed.token[1] \in DOMAIN e.handlers
                  THEN parsed.token[1]
                  ELSE CHOOSE t \in DOMAIN e.handlers :
                         \A u \in DOMAIN e.handlers : t <= u
           c == handler(e, sel, [parsed EXCEPT !.output = e.output])
       IN  [c EXCEPT !.handlers = [t \in DOMAIN @ \ {sel} |-> @[t]],
                     !.output = <<>>]
  ELSE e

\* the closure registered for the token of the record is called with the
\* record and then deleted
correlate(e, parsed) ==
  IF hits(e, parsed)
  THEN LET sel == parsed.token[1]
           c == handler(e, sel, withOutput(e, parsed))
       IN  [c EXCEPT !.handlers = [t \in DOMAIN @ \ {sel} |-> @[t]],
                     !.output = <<>>]
  ELSE e

\* the record is logged first when debugOutput is set
debugLog(e, parsed) ==
  IF e.debugOutput
  THEN log(e, "log", <<"GDB -> App: ">> \o stringify(parsed))
  ELSE e

\* an error record no closure took is logged on stderr
errorLog(e, hit, parsed, line) ==
  IF /\ ~hit
     /\ parsed.resultRecords # Absent
     /\ parsed.resultRecords[1].resultClass = "error"
  THEN log(e, "stderr", OrElse(result(parsed, "msg"), line))
  ELSE e

\* the out-of-band records of the line are routed in order
routeOob(e, parsed) ==
  IF Truthy(parsed.outOfBandRecord) THEN routeAll(e, parsed, 1) ELSE e

\* a record nothing handled is logged
unhandled(e, hit, parsed) ==
  IF ~(\/ hit
       \/ Truthy(parsed.outOfBandRecord)
       \/ (/\ parsed.token = Absent
           /\ parsed.resultRecords = Absent
           /\ Len(parsed.outOfBandRecord) = 0))
  THEN log(e, "log", <<"Unhandled: ">> \o stringify(parsed))
  ELSE e

\* the line's record after its content was added to `output`: the closure,
\* the error log, the routing, the unhandled log
onRecord(e, parsed, line) ==
  unhandled(routeOob(errorLog(correlate(e, parsed), hits(e, parsed),
                              withOutput(e, parsed), line),
                     withOutput(e, parsed)),
            hits(e, parsed), withOutput(e, parsed))

\* a line that is not program output, parsed
onParsed(e, parsed, line) ==
  onRecord(accumulate(debugLog(e, parsed), parsed), parsed, line)

\* the body of the forEach of onOutput, for one complete line
onOutputLine(e0, line) ==
  LET e == [e0 EXCEPT !.consumed = Append(@, [text |-> line, nl |-> TRUE])] IN
  IF couldBeOutput(line)
  THEN IF ~gdbMatch(line) THEN log(e, "stdout", line) ELSE e
  ELSE onParsed(e, parseMI(line), line)

RECURSIVE forEachLine(_, _, _)
forEachLine(e, lines, i) ==
  IF i > Len(lines) THEN e
  ELSE forEachLine(onOutputLine(e, lines[i]), lines, i + 1)

onOutput(e, lines) == forEachLine(e, split(lines), 1)

\* onOutputPartial that takes every partial line for program output
onOutputPartial_always(e, line) ==
  [logNoNewLine([e EXCEPT
                   !.consumed = Append(@, [text |-> line, nl |-> FALSE])],
                "stdout", line)
     EXCEPT !.buffer = <<>>]

\* onOutputPartial, with the buffer reset its caller does on true
onOutputPartial(e, line) ==
  IF couldBeOutput(line)
  THEN [logNoNewLine([e EXCEPT
                        !.consumed = Append(@, [text |-> line, nl |-> FALSE])],
                     "stdout", line)
          EXCEPT !.buffer = <<>>]
  ELSE e

(* ------------------------- stream demultiplexer ------------------------ *)
\* the text received is logged when trace is set
traceLog(e, data) ==
  IF trace
  THEN [e EXCEPT !.events =
          Append(@, Ev("msg", [type |-> "stderr",
                               msg |-> LogText(<<"<= ">> \o data)], 0))]
  ELSE e

\* what is left in the buffer after the complete lines goes to
\* onOutputPartial
partial(e) ==
  IF Len(e.buffer) # 0 THEN onOutputPartial(e, e.buffer) ELSE e

\* the complete lines of the buffer go to onOutput, the rest stays
flush(e) ==
  LET end == lastIndexOf(e.buffer, NL) IN
  IF end # 0
  THEN [onOutput(e, SubSeq(e.buffer, 1, end - 1))
          EXCEPT !.buffer = SubSeq(e.buffer, end + 1, Len(e.buffer))]
  ELSE e

\* flush that keeps the newline it split at in the buffer
flush_offByOne(e) ==
  LET end == lastIndexOf(e.buffer, NL) IN
  IF end # 0
  THEN [onOutput(e, SubSeq(e.buffer, 1, end - 1))
          EXCEPT !.buffer = SubSeq(e.buffer, end, Len(e.buffer))]
  ELSE e

\* stdout that keeps the newline it split at in the buffer
stdout_offByOne(e, data) ==
  partial(flush_offByOne([traceLog(e, data) EXCEPT !.buffer = @ \o data]))

\* the "data" callback of the subprocess's stdout
stdout(e, data) ==
  partial(flush([traceLog(e, data) EXCEPT !.buffer = @ \o data]))

(* ------------------ continuations of settled promises ------------------ *)
\* /0x([0-9a-fA-F]+) - +0x([0-9a-fA-F]+) is (.*)/ on one line of console text
sectionRegex(line) == \E i \in 1..Len(line) : line[i] = " is "

\* getSections after its command resolved: the section lines of the output
getSections(node) == SelectSeq(node.output, sectionRegex)

\* a continuation that announces debug-ready as soon as one promise resolves
connectThen_first(e, x) ==
  IF x.ev = "resolve" /\ e.connectAll.state = "pending"
  THEN [e EXCEPT !.connectAll = [state |-> "resolved", wait |-> {}],
                 !.events = Append(@, Ev("debug-ready", <<>>, 0))]
  ELSE e

\* what connect chained on one promise of its commands, run once the promise
\* is settled: sections-loaded for the sections query, then Promise.all:
\* debug-ready when the last awaited promise resolves, reject on the first
\* rejection
connectThen(e, x) ==
  IF x.ev = "resolve"
  THEN LET e1 == IF x.arg.owner = "sections"
                 THEN [e EXCEPT !.events =
                         Append(@, Ev("sections-loaded",
                                      getSections(x.arg.value), 0))]
                 ELSE e
           w == e1.connectAll.wait \ {x.arg.token}
       IN  IF e1.connectAll.state = "pending" /\ w = {}
           THEN [e1 EXCEPT !.connectAll = [state |-> "resolved", wait |-> {}],
                           !.events = Append(@, Ev("debug-ready", <<>>, 0))]
           ELSE [e1 EXCEPT !.connectAll.wait = w]
  ELSE IF e.connectAll.state = "pending"
       THEN [e EXCEPT !.connectAll.state = "rejected"]
       ELSE e

\* the promise an operation of the engine returned is settled
returned(e, api, token, how, value) ==
  [e EXCEPT !.events =
     Append(@, Ev("returned", [api |-> api, token |-> token, how |-> how,
                               value |-> value], 0))]

ExecApis == {"interrupt", "continue", "next", "step", "stepOut"}

\* every operation compares the result class with "done"
Expected_done(api) == "done"

\* the result class an execution operation reports as true
Expected(api) == IF api = "interrupt" THEN "done" ELSE "running"

\* the callbacks of interrupt, continue, next, step and stepOut on the
\* promise of their command; reading the class of a record that has no
\* result record throws and leaves the promise of the operation pending
execThen(e, x) ==
  IF x.ev # "resolve"
  THEN returned(e, x.arg.owner, x.arg.token, "reject", x.arg.value)
  ELSE IF x.arg.value.resultRecords = Absent THEN e
  ELSE returned(e, x.arg.owner, x.arg.token, "resolve",
                x.arg.value.resultRecords[1].resultClass
                  = Expected(x.arg.owner))

\* bkptNum in a command: parseInt of the reported text, NaN without digits
NumText(opt) ==
  IF opt = Absent \/ LeadingDigits(opt[1]) = 0 THEN <<"NaN">>
  ELSE NumToStr(parseInt(SubSeq(opt[1], 1, LeadingDigits(opt[1]))))

\* breakpoint.number = bkptNum, for the breakpoint the callback holds
bind(e, token, number) == [e EXCEPT !.inserts[token].number = Some(number)]

\* setBreakPointCondition(bkptNum, condition), called by the callback of
\* addBreakPoint, which chains its second callback on the promise
setBreakPointCondition(e, token, bkptNum, condition) ==
  [sendCommand(log(e, "stderr", <<"setBreakPointCondition">>),
               <<"break-condition ">> \o bkptNum \o <<" ">> \o condition,
               FALSE, "setBreakPointCondition")
     EXCEPT !.inserts = (e.currentToken :> e.inserts[token]) @@ @]

\* a callback that asks for the condition whatever the class of the reply
breakThen_anyClass(e, x) ==
  IF x.ev # "resolve"
  THEN returned(e, x.arg.owner, x.arg.token, "reject", x.arg.value)
  ELSE IF x.arg.value.resultRecords = Absent THEN e
  ELSE IF e.inserts[x.arg.token].breakpoint.condition # <<>>
  THEN setBreakPointCondition(
         bind(e, x.arg.token, NumText(result(x.arg.value, "bkpt.number"))),
         x.arg.token, NumText(result(x.arg.value, "bkpt.number")),
         e.inserts[x.arg.token].breakpoint.condition)
  ELSE returned(bind(e, x.arg.token,
                     NumText(result(x.arg.value, "bkpt.number"))),
                x.arg.owner, x.arg.token, "resolve", "breakpoint")

\* the callback of addBreakPoint on the promise of break-insert: on done
\* the number is bound and the condition, if any, is set; the breakpoint
\* without condition is the result; null on another class
breakThen(e, x) ==
  IF x.ev # "resolve"
  THEN returned(e, x.arg.owner, x.arg.token, "reject", x.arg.value)
  ELSE IF x.arg.value.resultRecords = Absent THEN e
  ELSE IF x.arg.value.resultRecords[1].resultClass # "done"
  THEN returned(e, x.arg.owner, x.arg.token, "resolve", "null")
  ELSE IF e.inserts[x.arg.token].breakpoint.condition # <<>>
  THEN setBreakPointCondition(
         bind(e, x.arg.token, NumText(result(x.arg.value, "bkpt.number"))),
         x.arg.token, NumText(result(x.arg.value, "bkpt.number")),
         e.inserts[x.arg.token].breakpoint.condition)
  ELSE returned(bind(e, x.arg.token,
                     NumText(result(x.arg.value, "bkpt.number"))),
                x.arg.owner, x.arg.token, "resolve", "breakpoint")

\* the callback of addBreakPoint on the promise of break-condition
conditionThen(e, x) ==
  IF x.ev # "resolve"
  THEN returned(e, "addBreakPoint", x.arg.token, "reject", x.arg.value)
  ELSE IF x.arg.value.resultRecords = Absent THEN e
  ELSE returned(e, "addBreakPoint", x.arg.token, "resolve",
                IF x.arg.value.resultRecords[1].resultClass = "done"
                THEN "breakpoint" ELSE "null")

\* the callback of removeBreakpoints on the promise of break-delete
removeThen(e, x) ==
  IF x.ev # "resolve"
  THEN returned(e, x.arg.owner, x.arg.token, "reject", x.arg.value)
  ELSE IF x.arg.value.resultRecords = Absent THEN e
  ELSE returned(e, x.arg.owner, x.arg.token, "resolve",
                x.arg.value.resultRecords[1].resultClass = "done")

\* the call of abort whose killAndExit awaited token now awaits next (0:
\* nothing more); done: its promise is resolved
settleAbort(e, token, next, done) ==
  [e EXCEPT !.timers =
     [i \in DOMAIN e.timers |->
        IF e.timers[i].awaits = token
        THEN [e.timers[i] EXCEPT
                !.awaits = next,
                !.promise = IF done THEN "resolved" ELSE @]
        ELSE e.timers[i]]]

\* killAndExit after an await: the exit request once kill resolved, the
\* promise of abort once the exit request resolved; a rejection ends it
abortThen(e, x) ==
  IF x.ev # "resolve" THEN settleAbort(e, x.arg.token, 0, FALSE)
  ELSE IF x.arg.owner = "kill"
  THEN settleAbort(sendCommand(e, ExitCommand, FALSE, "exit"), x.arg.token,
                   e.currentToken, FALSE)
  ELSE settleAbort([e EXCEPT !.events =
                      Append(@, Ev("abort-resolved", TRUE, 0))],
                   x.arg.token, 0, TRUE)

\* nextCommand of _sendCommandSequence: resolve(true) for an empty list,
\* and then, in either case, commands[0] is sent (undefined for an empty
\* list) with nextCommand of the rest chained on its promise; id names the
\* call of restart, settled says that its promise is settled already
nextCommand(e, commands, id, settled) ==
  [sendCommand(IF commands = <<>> /\ ~settled
               THEN returned(e, "restart", id, "resolve", TRUE) ELSE e,
               IF commands = <<>> THEN <<"undefined">> ELSE commands[1],
               FALSE, "restart")
     EXCEPT !.sequences =
              (e.currentToken :>
                 [rest |-> IF commands = <<>> THEN <<>> ELSE Tail(commands),
                  id |-> id,
                  settled |-> settled \/ commands = <<>>]) @@ @]

\* the callbacks _sendCommandSequence chained on the promise of a command
sequenceThen(e, x) ==
  IF x.ev = "resolve"
  THEN nextCommand(e, e.sequences[x.arg.token].rest,
                   e.sequences[x.arg.token].id,
                   e.sequences[x.arg.token].settled)
  ELSE IF e.sequences[x.arg.token].settled THEN e
  ELSE returned(e, "restart", e.sequences[x.arg.token].id, "reject",
                x.arg.value)

\* the continuation chained on a settled promise of sendCommand
then(e, x) ==
  IF x.arg.owner \in {"connect", "sections"} THEN connectThen(e, x)
  ELSE IF x.arg.owner \in {"kill", "exit"} THEN abortThen(e, x)
  ELSE IF x.arg.owner \in ExecApis THEN execThen(e, x)
  ELSE IF x.arg.owner = "addBreakPoint" THEN breakThen(e, x)
  ELSE IF x.arg.owner = "setBreakPointCondition" THEN conditionThen(e, x)
  ELSE IF x.arg.owner = "restart" THEN sequenceThen(e, x)
  ELSE IF x.arg.owner = "removeBreakpoints" THEN removeThen(e, x)
  ELSE e

\* the promise jobs queued while a callback ran, in the order the promises
\* were settled; they run when the callback returns
RECURSIVE runJobs(_, _, _)
runJobs(e, evs, i) ==
  IF i > Len(evs) THEN e
  ELSE IF evs[i].ev \in {"resolve", "reject"} /\ evs[i].arg.first
       THEN runJobs(then(e, evs[i]), evs, i + 1)
       ELSE runJobs(e, evs, i + 1)

\* one delivery to the stdout callback, and the promise jobs after it
jobsFrom(e, before) ==
  runJobs(e, SubSeq(e.events, before + 1, Len(e.events)), 1)

deliver(e, data) == jobsFrom(stdout(e, data), Len(e.events))

(* ------------------------------ inputs --------------------------------- *)
AsyncOn == <<"gdb-set target-async on">>
InfoFile == <<"interpreter-exec console \"info file\"">>
SetupCommands == {<<"break-insert main">>}
UserCommands == {<<"exec-continue">>}

RECURSIVE SeqsUpTo(_, _)
SeqsUpTo(S, n) ==
  IF n = 0 THEN {<<>>}
  ELSE LET shorter == SeqsUpTo(S, n - 1)
       IN  shorter \cup {Append(q, x) : q \in shorter, x \in S}

\* lines the subprocess writes: replies to any token, with and without a
\* msg field, notifications, stream records, program output, the prompt
ResultLines ==
  UNION {{NumToStr(t) \o <<"^", "done">>,
          NumToStr(t) \o <<"^", "error">>,
          NumToStr(t) \o <<"^", "error", ",msg=", QUOTE, QUOTE>>,
          NumToStr(t) \o <<"^", "error", ",msg=", QUOTE, "x", QUOTE>>}
         : t \in 1..MaxToken}
StoppedLine == <<"*", "stopped", ",reason=", QUOTE, "breakpoint-hit", QUOTE>>
StreamLines == {<<"~", QUOTE, "a", QUOTE>>, <<"~", QUOTE, "b", QUOTE>>}
ProgramLines == {<<"a">>, <<"a", "~">>, <<>>}
PromptLine == <<"(gdb)">>
Lines == ResultLines \cup ProgramLines
           \cup {<<"~", QUOTE, "a", QUOTE>>, StoppedLine, PromptLine}

\* the setup commands of a launch, and a reply of either class
LaunchCommands == {<<"break-insert main">>, <<"enable-pretty-printing">>}
Reply(t, cls) == NumToStr(t) \o <<"^", cls>>
\* a line of console text that names a section
SectionLine == <<"~", QUOTE, "0x0 - 0x4", " is ", ".text", QUOTE>>

\* notifications: every stop reason the router names, an unnamed one, none
StopReasons ==
  {"breakpoint-hit", "end-stepping-range", "function-finished",
   "signal-received", "exited-normally", "exited", "watchpoint-trigger"}
StopLines ==
  {<<"*", "stopped", ",reason=", QUOTE, r, QUOTE>> : r \in StopReasons}
    \cup {<<"*", "stopped">>,
          <<"*", "stopped", ",reason=", QUOTE, "exited", QUOTE,
            ",exit-code=", QUOTE, "0", "1", QUOTE>>}
RunningLine == <<"*", "running">>
ThreadLines ==
  {<<"=", c, ",id=", QUOTE, "1", QUOTE, ",group-id=", QUOTE, "i", "1", QUOTE>>
     : c \in {"thread-created", "thread-exited", "thread-selected"}}
\* exec and notify records of classes the router does not name
OtherLines == {<<"*", "paused">>, <<"=", "thread-group-added">>,
               <<"=", "library-loaded", ",id=", QUOTE, "1", QUOTE>>}
RouterLines ==
  StopLines \cup ThreadLines \cup OtherLines \cup StreamLines
    \cup {RunningLine, PromptLine, <<"a">>}
\* what arrives between two replies
BurstLines == StreamLines \cup {RunningLine}
Done(t) == NumToStr(t) \o <<"^", "done">>

\* the lines of the chunked deliveries
DemuxLines == StreamLines \cup {<<"1", "^", "done">>}

RECURSIVE Join(_)
Join(lines) ==
  IF lines = <<>> THEN <<>> ELSE Head(lines) \o <<NL>> \o Join(Tail(lines))

RECURSIVE Flatten(_)
Flatten(pieces) ==
  IF pieces = <<>> THEN <<>>
  ELSE Head(pieces).text \o (IF Head(pieces).nl THEN <<NL>> ELSE <<>>)
         \o Flatten(Tail(pieces))

CountStream(lines) == Len(SelectSeq(lines, LAMBDA l : l \in StreamLines))

(* ------------------------------ actions -------------------------------- *)
\* the engine at the start of an operation: the event record starts afresh
Fresh == [Eng EXCEPT !.events = <<>>, !.consumed = <<>>]

\* no text was written for the operation: only the buffer is recorded
NoText(buf) == [buffer |-> buf, text |-> <<>>, whole |-> <<>>]

Init ==
  /\ currentToken = 1
  /\ handlers = <<>>
  /\ buffer = <<"undefined">>
  /\ output = <<>>
  /\ process = "unstarted"
  /\ printCalls = FALSE
  /\ debugOutput = FALSE
  /\ connectAll = [state |-> "none", wait |-> {}]
  /\ timers = <<>>
  /\ listeners = 0
  /\ inserts = <<>>
  /\ sequences = <<>>
  /\ calls = <<>>
  /\ wire = <<>>
  /\ promises = <<>>
  /\ events = <<>>
  /\ consumed = <<>>
  /\ pipe = <<>>
  /\ chunks = 0
  /\ snap = NoText(<<"undefined">>)

RECURSIVE sendAll(_, _)
sendAll(e, commands) ==
  IF commands = <<>> THEN e
  ELSE sendAll(sendCommand(e, Head(commands), FALSE, "connect"), Tail(commands))

\* connect(cwd, executable, commands)
connect(e, commands) ==
  LET e0 == [e EXCEPT !.process = "running"]
      e1 == sendCommand(e0, AsyncOn, TRUE, "connect")
      e2 == sendAll(e1, commands)
      e3 == sendCommand(e2, InfoFile, FALSE, "sections")
  IN  [e3 EXCEPT !.connectAll =
         [state |-> "pending", wait |-> e.currentToken..(e3.currentToken - 1)]]

\* connect, called once: the subprocess is spawned by it
Launch(commands) ==
  /\ process = "unstarted"
  /\ Install(connect(Fresh, commands))
  /\ snap' = NoText(buffer)
  /\ UNCHANGED <<pipe, chunks>>

Connect(commands) ==
  /\ currentToken + Len(commands) + 1 <= MaxToken
  /\ Launch(commands)

\* a call of sendCommand by the session
SendCommand(command, suppressFailure) ==
  /\ process # "exited"
  /\ currentToken <= MaxToken
  /\ pipe = <<>>
  /\ Install(jobsFrom(sendCommand(Fresh, command, suppressFailure, "user"), 0))
  /\ snap' = NoText(buffer)
  /\ UNCHANGED <<pipe, chunks>>

\* the subprocess writes one line and the stdout callback receives it whole
StdoutLine(line) ==
  /\ process = "running"
  /\ pipe = <<>>
  /\ CountStream(<<line>>) > 0 => Len(output) < MaxOutput
  /\ \E e \in {deliver(Fresh, line \o <<NL>>)} :
       /\ Install(e)
       /\ snap' = [buffer |-> buffer, text |-> line \o <<NL>>,
                   whole |-> e.events]
  /\ chunks' = 1
  /\ UNCHANGED pipe

\* the subprocess writes some lines and the stdout callback receives them
\* in one piece
StdoutText(lines) ==
  /\ process = "running"
  /\ pipe = <<>>
  /\ lines # <<>>
  /\ Len(output) + CountStream(lines) <= MaxOutput
  /\ \E e \in {deliver(Fresh, Join(lines))} :
       /\ Install(e)
       /\ snap' = [buffer |-> buffer, text |-> Join(lines), whole |-> e.events]
  /\ chunks' = 1
  /\ UNCHANGED pipe

\* the subprocess writes some lines, not yet delivered
Write(lines) ==
  /\ process = "running"
  /\ pipe = <<>>
  /\ lines # <<>>
  /\ Len(output) + CountStream(lines) <= MaxOutput
  /\ pipe' = Join(lines)
  /\ chunks' = 0
  /\ snap' = [buffer |-> buffer, text |-> Join(lines),
              whole |-> deliver(Fresh, Join(lines)).events]
  /\ Install(Fresh)

\* the stdout callback receives the next k lexemes of the text written
Stdout(k) ==
  /\ pipe # <<>>
  /\ chunks < MaxChunks
  /\ chunks = MaxChunks - 1 => k = Len(pipe)
  /\ Install(deliver(Eng, SubSeq(pipe, 1, k)))
  /\ pipe' = SubSeq(pipe, k + 1, Len(pipe))
  /\ chunks' = chunks + 1
  /\ UNCHANGED snap

\* the "exit" event of the subprocess
exit(e) ==
  emit([e EXCEPT
          !.process = "exited",
          !.timers = [i \in DOMAIN @ |->
                        IF @[i].state = "armed" /\ @[i].pid
                        THEN [@[i] EXCEPT !.state = "cleared"] ELSE @[i]]],
       "quit", <<>>)

ProcessExit ==
  /\ process = "running"
  /\ pipe = <<>>
  /\ Install(exit(Fresh))
  /\ snap' = NoText(buffer)
  /\ UNCHANGED <<pipe, chunks>>

\* setTimeout(() => process.kill(-proc.pid), 1000) and the exit listener
\* that clears it; with no subprocess registering the listener throws
arm(e, by) ==
  [e EXCEPT !.timers = Append(@, [by |-> by, state |-> "armed",
                                  pid |-> e.process # "unstarted",
                                  exited |-> e.process = "exited",
                                  late |-> FALSE,
                                  promise |-> IF by = "abort" THEN "pending"
                                              ELSE "none",
                                  listening |-> FALSE,
                                  awaits |-> 0])]

\* stop() and detach(): the timer, the exit listener, the raw request
stop(e) ==
  IF e.process = "unstarted" THEN arm(e, "stop")
  ELSE sendRaw(arm(e, "stop"), <<"-gdb-exit">>)

detach(e) ==
  IF e.process = "unstarted" THEN arm(e, "detach")
  ELSE sendRaw(arm(e, "detach"), <<"-target-detach">>)

\* abort(needToStop): the timer and the exit listener, then either the
\* one-shot listener and the interrupt request, or killAndExit at once
abort(e, needToStop) ==
  IF e.process = "unstarted" THEN arm(e, "abort")
  ELSE IF needToStop
  THEN sendCommand([arm(e, "abort") EXCEPT
                      !.listeners = @ + 1,
                      !.timers[Len(e.timers) + 1].listening = TRUE],
                   InterruptCommand, FALSE, "interrupt")
  ELSE [killAndExit(arm(e, "abort"), 1) EXCEPT
          !.timers[Len(e.timers) + 1].awaits = e.currentToken]

Stop ==
  /\ Len(timers) < MaxTimers
  /\ pipe = <<>>
  /\ Install(stop(Fresh))
  /\ snap' = NoText(buffer)
  /\ UNCHANGED <<pipe, chunks>>

Detach ==
  /\ Len(timers) < MaxTimers
  /\ pipe = <<>>
  /\ Install(detach(Fresh))
  /\ snap' = NoText(buffer)
  /\ UNCHANGED <<pipe, chunks>>

Abort(needToStop) ==
  /\ Len(timers) < MaxTimers
  /\ pipe = <<>>
  /\ Install(jobsFrom(abort(Fresh, needToStop), 0))
  /\ snap' = NoText(buffer)
  /\ UNCHANGED <<pipe, chunks>>

\* a grace timer expires: the process group is killed (with no subprocess
\* reading the pid throws); the timer of abort resolves its promise
expire(e, i) ==
  LET t == e.timers[i] IN
  IF ~t.pid THEN [e EXCEPT !.timers[i].state = "threw"]
  ELSE [e EXCEPT
          !.timers[i].state = "fired",
          !.timers[i].late = e.process = "exited",
          !.timers[i].promise = IF t.by = "abort" THEN "resolved" ELSE @,
          !.events = IF t.by = "abort"
                     THEN Append(@, Ev("abort-resolved", TRUE, 0)) ELSE @]

TimerExpire(i) ==
  /\ timers[i].state = "armed"
  /\ pipe = <<>>
  /\ Install(expire(Fresh, i))
  /\ snap' = NoText(buffer)
  /\ UNCHANGED <<pipe, chunks>>

\* the name of an operation is logged when trace is set
traceCall(e, name) == IF trace THEN log(e, "stderr", <<name>>) ELSE e

Threads == {1, 2}

\* the command of an execution operation, without the thread
baseCmd(api, instruction) ==
  CASE api = "interrupt" -> "exec-interrupt"
    [] api = "continue" -> "exec-continue"
    [] api = "next" ->
         IF instruction THEN "exec-next-instruction" ELSE "exec-next"
    [] api = "step" ->
         IF instruction THEN "exec-step-instruction" ELSE "exec-step"
    [] api = "stepOut" -> "exec-finish"

\* interrupt, continue, next, step, stepOut
exec(e, api, threadId, instruction) ==
  sendCommand(traceCall(e, api),
              <<baseCmd(api, instruction), " --thread ">> \o NumToStr(threadId),
              FALSE, api)

\* only next and step take the instruction flag
Exec(api, threadId, instruction) ==
  /\ process = "running"
  /\ currentToken <= MaxToken
  /\ pipe = <<>>
  /\ instruction => api \in {"next", "step"}
  /\ Install(jobsFrom(exec(Fresh, api, threadId, instruction), 0))
  /\ snap' = NoText(buffer)
  /\ UNCHANGED <<pipe, chunks>>

\* escape that changes nothing
escape_none(str) == str

\* escape: every backslash doubled, then every quote given a backslash
RECURSIVE escape(_)
escape(str) ==
  IF str = <<>> THEN <<>>
  ELSE (IF Head(str) = BACKSLASH THEN <<BACKSLASH, BACKSLASH>>
        ELSE IF Head(str) = QUOTE THEN <<BACKSLASH, QUOTE>>
        ELSE <<Head(str)>>) \o escape(Tail(str))

\* numRegex.exec(str): the first run of digits, Absent for no match
RECURSIVE numRegex(_)
numRegex(str) ==
  IF str = <<>> THEN Absent
  ELSE IF Head(str) \in Digits
  THEN Some(SubSeq(str, 1, LeadingDigits(str)))
  ELSE numRegex(Tail(str))

UnsupportedCount(countCondition) ==
  <<"Unsupported break count expression: '">> \o countCondition
    \o <<"'. Only supports 'X' for breaking once after X times or '>X' for ignoring the first X breaks">>

\* the count arguments of break-insert: reading [0] of a failed match
\* throws
countArgs(countCondition) ==
  LET none == [throws |-> FALSE, warn |-> FALSE, text |-> <<>>] IN
  IF countCondition = <<>> THEN none
  ELSE IF countCondition[1] = ">"
  THEN IF numRegex(Tail(countCondition)) = Absent
       THEN [none EXCEPT !.throws = TRUE]
       ELSE [none EXCEPT !.text =
               <<"-i ">> \o numRegex(Tail(countCondition))[1] \o <<" ">>]
  ELSE IF numRegex(countCondition) = Absent
  THEN [none EXCEPT !.throws = TRUE]
  ELSE IF Len(numRegex(countCondition)[1]) # Len(countCondition)
  THEN [none EXCEPT !.warn = TRUE, !.text = <<"-t ">>]
  ELSE IF parseInt(numRegex(countCondition)[1]) # 0
  THEN [none EXCEPT !.text =
          <<"-t -i ">> \o NumToStr(parseInt(numRegex(countCondition)[1]))
            \o <<" ">>]
  ELSE none

\* the location of break-insert
locationOf(breakpoint) ==
  IF breakpoint.raw # <<>> THEN <<"*">> \o escape(breakpoint.raw)
  ELSE <<QUOTE>>
         \o escape(IF breakpoint.file # <<>> THEN breakpoint.file
                   ELSE <<"<unknown>">>)
         \o <<":">> \o NumToStr(breakpoint.line) \o <<QUOTE>>

\* addBreakPoint: an exception in the executor rejects the promise
addBreakPoint(e, breakpoint) ==
  IF countArgs(breakpoint.countCondition).throws
  THEN returned(traceCall(e, "addBreakPoint"), "addBreakPoint", 0, "reject",
                MIError(<<"TypeError">>, <<>>))
  ELSE [sendCommand(IF countArgs(breakpoint.countCondition).warn
                    THEN log(traceCall(e, "addBreakPoint"), "stderr",
                             UnsupportedCount(breakpoint.countCondition))
                    ELSE traceCall(e, "addBreakPoint"),
                    <<"break-insert ">>
                      \o countArgs(breakpoint.countCondition).text
                      \o locationOf(breakpoint),
                    FALSE, "addBreakPoint")
          EXCEPT !.inserts = (e.currentToken :>
                                [breakpoint |-> breakpoint,
                                 number |-> Absent]) @@ @]

\* numbers joined with " "
RECURSIVE join(_)
join(numbers) ==
  IF numbers = <<>> THEN <<>>
  ELSE IF Len(numbers) = 1 THEN NumToStr(numbers[1])
  ELSE NumToStr(numbers[1]) \o <<" ">> \o join(Tail(numbers))

\* removeBreakpoints that sends break-delete for an empty list too
removeBreakpoints_always(e, breakpoints) ==
  sendCommand(traceCall(e, "removeBreakPoint"),
              <<"break-delete ">> \o join(breakpoints),
              FALSE, "removeBreakpoints")

removeBreakpoints(e, breakpoints) ==
  IF Len(breakpoints) = 0
  THEN returned(traceCall(e, "removeBreakPoint"), "removeBreakpoints", 0,
                "resolve", TRUE)
  ELSE sendCommand(traceCall(e, "removeBreakPoint"),
                   <<"break-delete ">> \o join(breakpoints),
                   FALSE, "removeBreakpoints")

\* count conditions: none, >N, N, N with a leading zero, zero, text without
\* a digit, mixed text, > alone
CountConditions ==
  {<<>>, <<">", "3">>, <<"5">>, <<"0", "5">>, <<"0">>, <<"a", "b", "c">>,
   <<"5", "x">>, <<">">>}
\* breakpoints without condition: at file:line with a quote and a
\* backslash in the file name for every count condition; at a raw address
\* and with no file, without count condition and with >3
Breakpoints ==
  {[countCondition |-> cc, raw |-> <<>>,
    file |-> <<"a", QUOTE, BACKSLASH, "b.c">>, line |-> 7,
    condition |-> <<>>] : cc \in CountConditions}
    \cup {[countCondition |-> cc, raw |-> l.raw, file |-> <<>>,
           line |-> l.line, condition |-> <<>>] :
            cc \in {<<>>, <<">", "3">>},
            l \in {[raw |-> <<"0x100">>, line |-> 0],
                   [raw |-> <<>>, line |-> 12]}}
NumberLists == {<<>>, <<1>>, <<1, 2>>}
\* breakpoints with a condition, and one without
Conditions == {<<>>, <<"x>1">>, <<"y">>}
CondBreakpoints ==
  {[countCondition |-> <<>>, raw |-> <<>>, file |-> <<"a.c">>, line |-> 7,
    condition |-> c] : c \in Conditions}
\* a done reply to token t that reports the number n of the breakpoint
Inserted(t, n) ==
  Reply(t, "done") \o <<",bkpt={number=", QUOTE>> \o n \o <<QUOTE, "}">>
BreakpointNumbers == {<<"4">>, <<"1", "2">>}

AddBreakPoint(breakpoint) ==
  /\ process = "running"
  /\ currentToken <= MaxToken
  /\ pipe = <<>>
  /\ Install(jobsFrom(addBreakPoint(Fresh, breakpoint), 0))
  /\ snap' = NoText(buffer)
  /\ UNCHANGED <<pipe, chunks>>

RemoveBreakpoints(breakpoints) ==
  /\ process = "running"
  /\ currentToken <= MaxToken
  /\ pipe = <<>>
  /\ Install(jobsFrom(removeBreakpoints(Fresh, breakpoints), 0))
  /\ snap' = NoText(buffer)
  /\ UNCHANGED <<pipe, chunks>>

\* restart(commands)
restart(e, commands) ==
  nextCommand(traceCall(e, "restart"), commands, e.currentToken, FALSE)

RestartCommands == {<<"exec-run">>, <<"target-select remote">>}

Restart(commands) ==
  /\ process = "running"
  /\ currentToken <= MaxToken
  /\ pipe = <<>>
  /\ Install(jobsFrom(restart(Fresh, commands), 0))
  /\ snap' = NoText(buffer)
  /\ UNCHANGED <<pipe, chunks>>

\* the correlator: commands, and replies delivered line by line
Next ==
  \/ \E commands \in SeqsUpTo(SetupCommands, MaxSetup) : Connect(commands)
  \/ \E c \in UserCommands, sf \in BOOLEAN : SendCommand(c, sf)
  \/ \E line \in Lines : StdoutLine(line)
  \/ ProcessExit

Spec == Init /\ [][Next]_vars

\* the demultiplexer: texts of several lines delivered in chunks
NextDemux ==
  \/ Connect(<<>>)
  \/ \E lines \in SeqsUpTo(DemuxLines, MaxLines) : Write(lines)
  \/ \E k \in 1..Len(pipe) : Stdout(k)
  \/ ProcessExit

SpecDemux == Init /\ [][NextDemux]_vars

\* the router: notifications, stream records and replies, line by line
\* and several lines at once
NextRouter ==
  \/ Connect(<<>>)
  \/ \E line \in RouterLines : StdoutText(<<line>>)
  \/ \E line \in StopLines : StdoutText(<<line, PromptLine>>)
  \/ \E t1, t2 \in DOMAIN handlers, mid \in SeqsUpTo(BurstLines, MaxBurst) :
       /\ t1 # t2
       /\ StdoutText(<<Done(t1)>> \o mid \o <<Done(t2)>>)
  \/ ProcessExit

SpecRouter == Init /\ [][NextRouter]_vars

\* the launch: connect with a list of setup commands, then the replies to
\* the pending commands in any order, console text in between
NextConnect ==
  \/ \E commands \in SeqsUpTo(LaunchCommands, MaxLaunch) : Launch(commands)
  \/ \E t \in DOMAIN handlers, cls \in {"done", "error"} :
       StdoutText(<<Reply(t, cls)>>)
  \/ StdoutText(<<SectionLine>>)
  \/ ProcessExit

SpecConnect == Init /\ [][NextConnect]_vars

\* the subprocess replies to the commands in the order it read them
Oldest(tokens) == CHOOSE t \in tokens : \A u \in tokens : t <= u

\* the teardown: stop, detach and abort, the grace timers, the stops and
\* the replies of the subprocess, its exit
NextTeardown ==
  \/ Connect(<<>>)
  \/ Stop
  \/ Detach
  \/ \E needToStop \in BOOLEAN : Abort(needToStop)
  \/ \E i \in DOMAIN timers : TimerExpire(i)
  \/ \E cls \in {"done", "error"} :
       /\ DOMAIN handlers # {}
       /\ StdoutText(<<Reply(Oldest(DOMAIN handlers), cls)>>)
  \/ StdoutText(<<StoppedLine>>)
  \/ ProcessExit

SpecTeardown == Init /\ [][NextTeardown]_vars

\* the teardown with time passing: a grace timer that stays armed expires
SpecTeardownFair ==
  SpecTeardown /\ WF_vars(\E i \in DOMAIN timers : TimerExpire(i))

\* the execution operations, and the replies of every result class
NextExec ==
  \/ Connect(<<>>)
  \/ \E api \in ExecApis, threadId \in Threads, instruction \in BOOLEAN :
       Exec(api, threadId, instruction)
  \/ \E t \in DOMAIN handlers, cls \in ResultClasses :
       StdoutText(<<Reply(t, cls)>>)
  \/ ProcessExit

SpecExec == Init /\ [][NextExec]_vars

\* the breakpoint operations, and the replies to them
NextBreak ==
  \/ Connect(<<>>)
  \/ \E breakpoint \in Breakpoints : AddBreakPoint(breakpoint)
  \/ \E breakpoints \in NumberLists : RemoveBreakpoints(breakpoints)
  \/ \E t \in DOMAIN handlers, cls \in {"done", "error", "running"} :
       StdoutText(<<Reply(t, cls)>>)
  \/ ProcessExit

SpecBreak == Init /\ [][NextBreak]_vars

\* restart with lists of commands, and the replies to its commands
NextRestart ==
  \/ Connect(<<>>)
  \/ \E commands \in SeqsUpTo(RestartCommands, MaxRestart) : Restart(commands)
  \/ \E t \in DOMAIN handlers, cls \in {"done", "error", "running"} :
       /\ currentToken <= MaxToken + MaxRestart
       /\ StdoutText(<<Reply(t, cls)>>)
  \/ ProcessExit

SpecRestart == Init /\ [][NextRestart]_vars

\* records that carry the token of a pending command: results, exec and
\* notify records
TokenedLines(t) ==
  {Reply(t, "done"), Reply(t, "error"),
   NumToStr(t) \o RunningLine, NumToStr(t) \o StoppedLine,
   NumToStr(t) \o <<"=", "thread-group-added">>}

\* commands, and records with and without the token of a pending command
NextTokened ==
  \/ Connect(<<>>)
  \/ \E c \in UserCommands, sf \in BOOLEAN : SendCommand(c, sf)
  \/ \E t \in DOMAIN handlers :
       \E line \in TokenedLines(t) : StdoutText(<<line>>)
  \/ \E line \in StreamLines \cup {RunningLine, StoppedLine} :
       StdoutText(<<line>>)
  \/ ProcessExit

SpecTokened == Init /\ [][NextTokened]_vars

\* breakpoints with conditions: the replies to break-insert with and
\* without a number, of other classes, and the replies to break-condition
NextCondition ==
  \/ Connect(<<>>)
  \/ \E breakpoint \in CondBreakpoints : AddBreakPoint(breakpoint)
  \/ \E t \in DOMAIN handlers, n \in BreakpointNumbers :
       StdoutText(<<Inserted(t, n)>>)
  \/ \E t \in DOMAIN handlers, cls \in {"done", "error", "running"} :
       StdoutText(<<Reply(t, cls)>>)
  \/ ProcessExit

SpecCondition == Init /\ [][NextCondition]_vars

(* ------------------- properties of the correlator ---------------------- *)
\* the calls of resolve and reject that closures of sendCommand made during
\* the last operation, as indices into events
Settles ==
  {i \in 1..Len(events) :
     events[i].ev \in {"resolve", "reject"} /\ events[i].arg.by = "handler"}

\* the record whose processing produced event i
ReplyOf(i) == parseMI(consumed[events[i].src].text)

\* the call of sendCommand that allocated token t
CallOf(t) == CHOOSE c \in {calls[i] : i \in DOMAIN calls} : c.sel = t

\* the records with a token that the last operation processed
Replied ==
  {i \in 1..Len(consumed) :
     /\ consumed[i].nl
     /\ nonOutput(consumed[i].text)
     /\ parseMI(consumed[i].text).token # Absent}
RepliedTokens == {parseMI(consumed[i].text).token[1] : i \in Replied}

HandlerCalls(t) == Len(SelectSeq(promises[t], LAMBDA a : a.by = "handler"))

\* C1: once a record carrying the token of a pending command has been
\* processed, the closure of that command has settled its promise exactly
\* once and the token is out of the pending table; no closure ever settles
\* twice, and none settles while its token is still pending.
C1_SettledOnceAndRemoved ==
  /\ \A t \in RepliedTokens \cap DOMAIN promises :
       /\ t \notin DOMAIN handlers
       /\ HandlerCalls(t) = 1
  /\ \A t \in DOMAIN promises :
       /\ HandlerCalls(t) <= 1
       /\ t \in DOMAIN handlers => HandlerCalls(t) = 0

\* a reply has just settled a pending command while another one is pending
C1_Witness ==
  \E i \in Settles :
     /\ events[i].arg.token \in RepliedTokens
     /\ events[i].arg.token \notin DOMAIN handlers
     /\ DOMAIN handlers # {}

\* the written lines that start with a token
TokenLines == SelectSeq(wire, LAMBDA l : LeadingDigits(l) > 0)

\* line is <token>-<command>\n for the call c
IsLineOf(line, c) ==
  LET d == LeadingDigits(line) IN
  /\ d > 0
  /\ parseInt(SubSeq(line, 1, d)) = c.sel
  /\ SubSeq(line, d + 1, Len(line)) = <<"-">> \o c.command \o <<NL>>

IncreasingTokens ==
  /\ calls # <<>> => calls[1].sel = 1
  /\ \A i, j \in DOMAIN calls : i < j => calls[i].sel < calls[j].sel
  /\ \A t \in DOMAIN handlers : t < currentToken

StartedCalls == SelectSeq(calls, LAMBDA c : c.started)

C3_RejectedOnExit ==
  process = "exited" =>
    /\ DOMAIN handlers = {}
    /\ \A t \in DOMAIN promises : promises[t] # <<>>

\* event i settles a written command on a reply of result class error
ErrorReply(i, suppressed) ==
  /\ i \in Settles
  /\ CallOf(events[i].arg.token).started
  /\ CallOf(events[i].arg.token).suppressFailure = suppressed
  /\ ReplyOf(i).resultRecords # Absent
  /\ ReplyOf(i).resultRecords[1].resultClass = "error"

MsgField(i) == result(ReplyOf(i), "msg")

\* C4 as stated: an error reply to a command sent without suppression
\* rejects with the msg field, or "Internal error" when msg is absent, and
\* with the command text.
C4_RejectsWithMsg ==
  \A i \in 1..Len(events) : ErrorReply(i, FALSE) =>
     /\ events[i].ev = "reject"
     /\ events[i].arg.value.source = CallOf(events[i].arg.token).command
     /\ events[i].arg.value.message =
          IF MsgField(i) = Absent THEN <<"Internal error">> ELSE MsgField(i)[1]

\* C4 amended: an error reply to a command sent without suppression rejects
\* (never resolves) with a failure whose message is the msg field, or
\* "Internal error" when msg is absent or empty, and whose context is the
\* command text.
C4_RejectsWithMsgOrFallback ==
  \A i \in 1..Len(events) : ErrorReply(i, FALSE) =>
     /\ events[i].ev = "reject"
     /\ events[i].arg.first
     /\ \A a \in {promises[events[i].arg.token][k] :
                    k \in DOMAIN promises[events[i].arg.token]} :
          a.how = "reject"
     /\ events[i].arg.value.source = CallOf(events[i].arg.token).command
     /\ events[i].arg.value.message =
          IF MsgField(i) = Absent \/ MsgField(i)[1] = <<>>
          THEN <<"Internal error">> ELSE MsgField(i)[1]

\* an error reply with a message has rejected a command
C4_Witness ==
  \E i \in 1..Len(events) :
     /\ ErrorReply(i, FALSE)
     /\ MsgField(i) = Some(<<"x">>)
     /\ events[i].arg.value.message = <<"x">>

\* the warnings logged for the command of settle event i by the same line
Warnings(i) ==
  {j \in 1..Len(events) :
     /\ events[j].ev = "msg"
     /\ events[j].src = events[i].src
     /\ events[j].arg.type = "stderr"
     /\ events[j].arg.msg =
          <<"WARNING: Error executing command '">>
            \o CallOf(events[i].arg.token).command \o <<"'", NL>>}

\* C5: an error reply to a command sent with failure suppression resolves
\* the completion with that error record, never rejects it, and logs
\* exactly one warning.
C5_SuppressedResolves ==
  \A i \in 1..Len(events) : ErrorReply(i, TRUE) =>
     /\ events[i].ev = "resolve"
     /\ events[i].arg.first
     /\ \A a \in {promises[events[i].arg.token][k] :
                    k \in DOMAIN promises[events[i].arg.token]} :
          a.how = "resolve"
     /\ [events[i].arg.value EXCEPT !.output = <<>>] = ReplyOf(i)
     /\ Cardinality(Warnings(i)) = 1

\* a suppressed command has just received an error reply
C5_Witness == \E i \in 1..Len(events) : ErrorReply(i, TRUE)

\* C6: a closure is only ever called with the record that carries its own
\* token, whatever the order of the replies and whatever else arrives in
\* between.
C6_OwnRecord ==
  \A i \in Settles :
     /\ ReplyOf(i).token = Some(events[i].arg.token)
     /\ events[i].ev = "resolve" =>
          [events[i].arg.value EXCEPT !.output = <<>>] = ReplyOf(i)

\* a later command is settled while an earlier one is still pending
C6_Witness ==
  \E i \in Settles :
     /\ events[i].ev = "resolve"
     /\ \E t \in DOMAIN handlers : t < events[i].arg.token

(* ------------------ properties of the demultiplexer -------------------- *)
Args(evs) == [i \in 1..Len(evs) |-> evs[i].arg]

\* the log events of stream records
StreamLogs(evs) ==
  Args(SelectSeq(evs, LAMBDA x :
         x.ev = "msg" /\ x.arg.type \in {"console", "target", "log"}))

\* the program-output events
ProgramOutput(evs) ==
  Args(SelectSeq(evs, LAMBDA x : x.ev = "msg" /\ x.arg.type = "stdout"))

\* the calls closures made
SettleCalls(evs) ==
  Args(SelectSeq(evs, LAMBDA x :
         x.ev \in {"resolve", "reject"} /\ x.arg.by = "handler"))

\* the lines of the text last written
TextLines == LET p == split(snap.text) IN SubSeq(p, 1, Len(p) - 1)

\* the text last written has been delivered completely
Delivered == snap.text # <<>> /\ pipe = <<>> /\ chunks >= 1

StreamOnly == \A i \in 1..Len(TextLines) : TextLines[i] \in StreamLines

\* C7: a text of complete stream-record lines yields, however it is cut
\* into chunks, the stream log events of its delivery in one chunk and no
\* program-output event; past the first line the engine ever received,
\* these are the decoded contents of the lines in order.
C7_SplitInvariant ==
  Delivered /\ StreamOnly =>
    /\ StreamLogs(events) = StreamLogs(snap.whole)
    /\ ProgramOutput(events) = <<>>
    /\ snap.buffer = <<>> =>
         StreamLogs(events) =
           [i \in 1..Len(TextLines) |->
              [type |-> "console", msg |-> <<TextLines[i][3], NL>>]]

\* ~"a"\n~"b"\n has arrived in two chunks and was logged as a, then b
C7_Witness ==
  /\ Delivered
  /\ chunks = 2
  /\ snap.buffer = <<>>
  /\ TextLines = <<(<<"~", QUOTE, "a", QUOTE>>), (<<"~", QUOTE, "b", QUOTE>>)>>
  /\ StreamLogs(events) = <<[type |-> "console", msg |-> <<"a", NL>>],
                            [type |-> "console", msg |-> <<"b", NL>>]>>

\* C8: however a text of protocol records is cut into chunks, no part of
\* it is emitted as program output and the commands settled are those its
\* delivery in one chunk settles (stated for texts after the first line
\* the engine received).
C8_NoPartialRecord ==
  Delivered /\ snap.buffer = <<>> =>
    /\ ProgramOutput(events) = <<>>
    /\ SettleCalls(events) = SettleCalls(snap.whole)

\* a line starts like a protocol record: an optional token, then a marker
IsRecordStart(line) ==
  LET d == LeadingDigits(line) IN
  Len(line) > d /\ line[d + 1] \in AsyncMarkers \cup StreamMarkers \cup {"^"}

\* C9: a complete line that is neither a protocol record nor the prompt is
\* emitted exactly once as a program-output event (stated for lines after
\* the first line the engine received).
C9_ProgramOutputOnce ==
  (Delivered /\ snap.buffer = <<>> /\ Len(TextLines) = 1
     /\ ~IsRecordStart(TextLines[1]) /\ ~gdbMatch(TextLines[1])) =>
    ProgramOutput(events) =
      <<[type |-> "stdout", msg |-> consumed[1].text \o <<NL>>]>>

\* the part of the text last written that has been delivered
DeliveredText == SubSeq(snap.text, 1, Len(snap.text) - Len(pipe))

\* the events that a piece of stdout text caused
Caused == SelectSeq(events, LAMBDA x : x.src > 0)

\* C10: the pieces of text the engine has processed, followed by what it
\* still buffers, are exactly the text delivered, in order: nothing is
\* skipped, repeated or reordered; and the events appear in the order of
\* the pieces that caused them.
C10_InOrder ==
  /\ snap.buffer \o DeliveredText = Flatten(consumed) \o buffer
  /\ \A i, j \in 1..Len(Caused) : i < j => Caused[i].src <= Caused[j].src
  /\ \A i \in 1..Len(Caused) : Caused[i].src <= Len(consumed)

\* two lines have arrived in two chunks, and both caused events
C10_Witness ==
  /\ Delivered
  /\ chunks = 2
  /\ Len(TextLines) = 2
  /\ \E i, j \in 1..Len(Caused) : Caused[i].src < Caused[j].src

(* ---------------------- properties of the router ----------------------- *)
\* the events the router raises for notifications
TypedEvents ==
  {"breakpoint", "step-end", "step-out-end", "signal-stop", "exited-normally",
   "stopped", "generic-stopped", "running", "thread-created",
   "thread-exited", "thread-selected"}

\* the record of the k-th piece of text processed
PieceRecord(k) == parseMI(consumed[k].text)

\* the k-th piece is a complete line holding an exec or notify record
IsAsync(k, types) ==
  /\ consumed[k].nl
  /\ nonOutput(consumed[k].text)
  /\ Len(PieceRecord(k).outOfBandRecord) = 1
  /\ ~PieceRecord(k).outOfBandRecord[1].isStream
  /\ PieceRecord(k).outOfBandRecord[1].type \in types

IsStop(k) ==
  /\ IsAsync(k, {"exec"})
  /\ PieceRecord(k).outOfBandRecord[1].asyncClass = "stopped"

\* the k-th piece is a prompt line
IsPrompt(k) ==
  consumed[k].nl /\ couldBeOutput(consumed[k].text) /\ gdbMatch(consumed[k].text)

\* the typed events piece k caused, in order
TypedOf(k) ==
  SelectSeq(events, LAMBDA x : x.src = k /\ x.ev \in TypedEvents)

\* the program-output events piece k caused
OutputOf(k) ==
  SelectSeq(events, LAMBDA x :
     x.src = k /\ x.ev = "msg" /\ x.arg.type = "stdout")

\* the event the specification names for a stop reason
ReasonEventName(reason) ==
  IF reason = Some(<<"breakpoint-hit">>) THEN "breakpoint"
  ELSE IF reason = Some(<<"end-stepping-range">>) THEN "step-end"
  ELSE IF reason = Some(<<"function-finished">>) THEN "step-out-end"
  ELSE IF reason = Some(<<"signal-received">>) THEN "signal-stop"
  ELSE IF reason \in {Some(<<"exited-normally">>), Some(<<"exited">>)}
  THEN "exited-normally"
  ELSE "stopped"

\* C11: every stopped notification raises exactly one event, the one of
\* its reason, and then exactly one generic-stopped event, both carrying
\* the record; neither the notification line nor a prompt line raises a
\* program-output event.
C11_StopEvents ==
  \A k \in 1..Len(consumed) :
     /\ IsStop(k) =>
          /\ TypedOf(k) =
               <<Ev(ReasonEventName(record(PieceRecord(k), "reason")),
                    PieceRecord(k), k),
                 Ev("generic-stopped", PieceRecord(k), k)>>
          /\ OutputOf(k) = <<>>
     /\ IsPrompt(k) => OutputOf(k) = <<>>

\* *stopped,reason="breakpoint-hit" and the prompt have arrived in one text:
\* breakpoint, then generic-stopped
C11_Witness ==
  /\ Len(consumed) = 2
  /\ IsStop(1)
  /\ record(PieceRecord(1), "reason") = Some(<<"breakpoint-hit">>)
  /\ IsPrompt(2)
  /\ Len(TypedOf(1)) = 2
  /\ TypedOf(1)[1].ev = "breakpoint"
  /\ TypedOf(1)[2].ev = "generic-stopped"

\* the async classes the router names
NamedClasses ==
  {"running", "stopped", "thread-created", "thread-exited", "thread-selected"}

\* the log events piece k caused that carry its record
RecordLogs(k) ==
  SelectSeq(events, LAMBDA x :
     /\ x.src = k
     /\ x.ev = "msg"
     /\ x.arg.type = "log"
     /\ x.arg.msg = LogText(stringify(PieceRecord(k))))

\* C12: every exec or notify record of a class the router does not name
\* produces a log event carrying the record and raises no typed event.
C12_OtherClassLogged ==
  \A k \in 1..Len(consumed) :
     (/\ IsAsync(k, {"exec", "notify"})
      /\ PieceRecord(k).outOfBandRecord[1].asyncClass \notin NamedClasses) =>
       /\ Len(RecordLogs(k)) >= 1
       /\ TypedOf(k) = <<>>

\* the contents of the stream records among the pieces a+1 .. b-1
RECURSIVE StreamTexts(_, _)
StreamTexts(a, b) ==
  IF a + 1 >= b THEN <<>>
  ELSE (IF /\ nonOutput(consumed[a + 1].text)
           /\ Len(PieceRecord(a + 1).outOfBandRecord) = 1
           /\ PieceRecord(a + 1).outOfBandRecord[1].isStream
        THEN <<PieceRecord(a + 1).outOfBandRecord[1].content>>
        ELSE <<>>) \o StreamTexts(a + 1, b)

\* C13: when a reply resolves a command, the output attached to its record
\* is the sequence of the stream-record texts received since the reply
\* that settled the previous command, in arrival order, whatever stream
\* records and notifications arrived in between.
C13_OutputSinceResolution ==
  \A i, j \in Settles :
     (/\ i < j
      /\ events[j].ev = "resolve"
      /\ \A m \in Settles : ~(i < m /\ m < j)) =>
       events[j].arg.value.output = StreamTexts(events[i].src, events[j].src)

(* ---------------------- properties of the launch ----------------------- *)
\* the lines connect is to write for a list of setup commands
ConnectLines(commands) ==
  <<(<<"1", "-">> \o AsyncOn \o <<NL>>)>>
    \o [k \in 1..Len(commands) |->
          NumToStr(k + 1) \o <<"-">> \o commands[k] \o <<NL>>]
    \o <<(NumToStr(Len(commands) + 2) \o <<"-">> \o InfoFile \o <<NL>>)>>

DebugReady(evs) == SelectSeq(evs, LAMBDA x : x.ev = "debug-ready")

\* a record carrying token t was processed and resolved the command
ResolvedByReply(t) ==
  /\ promises[t] # <<>>
  /\ promises[t][1] = [how |-> "resolve", by |-> "handler"]

\* C14: connect with setup commands c1..cn, called on a new engine, writes
\* 1-gdb-set target-async on, then the setup commands with tokens 2..n+1 in
\* list order, then the sections query with token n+2, and processes no
\* reply while doing so; a step that announces debug-ready announces it
\* once, every command of connect has been resolved by its reply by then,
\* and one of them was still unsettled before the step (so debug-ready is
\* announced at most once).
C14_ConnectOrder ==
  [][/\ \A commands \in SeqsUpTo(LaunchCommands, MaxLaunch) :
          Launch(commands) =>
            /\ wire' = ConnectLines(commands)
            /\ consumed' = <<>>
            /\ DebugReady(events') = <<>>
            /\ \A t \in DOMAIN promises' : promises'[t] = <<>>
     /\ DebugReady(events') # <<>> =>
          /\ Len(DebugReady(events')) = 1
          /\ Len(wire') >= 2
          /\ \A t \in 1..Len(wire') :
               t \in DOMAIN promises' /\ ResolvedByReply(t)'
          /\ \E t \in DOMAIN promises : promises[t] = <<>>]_vars

\* debug-ready is announced after a launch with two setup commands
C14_Witness ==
  /\ DebugReady(events) # <<>>
  /\ Len(wire) = 4
  /\ wire[2] # wire[3]

(* --------------------- properties of the teardown ---------------------- *)
\* C15: a grace timer issues the process-group kill only when it expires
\* before the exit of the subprocess is observed, and once the exit has
\* been observed no grace timer is left armed.
C15_KillOnlyBeforeExit ==
  \A i \in DOMAIN timers :
     timers[i].pid =>
       /\ timers[i].state = "fired" => ~timers[i].late
       /\ process = "exited" => timers[i].state # "armed"

\* the lines sendCommand wrote for a command
Written(w, command) ==
  Len(SelectSeq(w, LAMBDA l :
        /\ LeadingDigits(l) > 0
        /\ SubSeq(l, LeadingDigits(l) + 1, Len(l))
             = <<"-">> \o command \o <<NL>>))

\* the calls of abort made with a subprocess
Aborts ==
  Len(SelectSeq(timers, LAMBDA t : t.by = "abort" /\ t.pid))

\* the replies that resolved a kill command, among some events
KillResolved(evs) ==
  Len(SelectSeq(evs, LAMBDA x :
        /\ x.ev = "resolve"
        /\ x.arg.by = "handler"
        /\ x.arg.command = KillCommand))

GenericStopped(evs) == SelectSeq(evs, LAMBDA x : x.ev = "generic-stopped")

\* C16: abort(true) writes the interrupt request and no kill command; a
\* kill command is written only by abort(false) itself or while a
\* generic-stopped event is raised with a listener of abort(true) waiting,
\* once for each such listener, which is then gone, so that the kill
\* commands written never outnumber the calls of abort; the exit request is
\* written only in a step in which a reply resolved the kill command, once
\* for each such reply.
C16_AbortOrder ==
  /\ [](Written(wire, KillCommand) + listeners = Aborts)
  /\ [][/\ (Abort(TRUE) /\ process = "running") =>
            /\ Written(wire', KillCommand) = Written(wire, KillCommand)
            /\ Written(wire', InterruptCommand)
                 = Written(wire, InterruptCommand) + 1
        /\ (Abort(FALSE) /\ process = "running") =>
            /\ Written(wire', KillCommand) = Written(wire, KillCommand) + 1
            /\ Written(wire', ExitCommand) = Written(wire, ExitCommand)
        /\ Written(wire', KillCommand) > Written(wire, KillCommand) =>
            \/ Abort(FALSE)
            \/ /\ GenericStopped(events') # <<>>
               /\ listeners > 0
               /\ listeners' = 0
               /\ Written(wire', KillCommand)
                    = Written(wire, KillCommand) + listeners
               /\ Written(wire, InterruptCommand) >= listeners
        /\ Written(wire', ExitCommand)
             = Written(wire, ExitCommand) + KillResolved(events')]_vars

\* abort(true) has run to its end: interrupt, a stop, kill, its reply, the
\* exit request
C16_Witness ==
  /\ Written(wire, InterruptCommand) = 1
  /\ Written(wire, KillCommand) = 1
  /\ Written(wire, ExitCommand) = 1
  /\ listeners = 0

(* ------------------ properties of the typed operations ----------------- *)
\* the settlements of the promises the operations api returned
Returned(evs, apis) ==
  SelectSeq(evs, LAMBDA x : x.ev = "returned" /\ x.arg.api \in apis)

\* the result class of the reply that carried token t in the last text
ClassOf(t) ==
  LET k == CHOOSE k \in 1..Len(consumed) : PieceRecord(k).token = Some(t)
  IN  PieceRecord(k).resultRecords[1].resultClass

\* C17: interrupt, continue, step, next and stepOut each write exactly one
\* command, for the given thread; when the reply arrives the promise of
\* the operation is settled once: rejected if the result class is error,
\* otherwise resolved with true if the class is done (interrupt) or running
\* (the other four) and with false for any other class.
C17_ExecBoolean ==
  /\ [](/\ \A i \in Settles :
            events[i].arg.owner \in ExecApis =>
              Len(SelectSeq(Returned(events, ExecApis), LAMBDA r :
                    r.arg.token = events[i].arg.token)) = 1
        /\ \A n \in 1..Len(Returned(events, ExecApis)) :
            LET r == Returned(events, ExecApis)[n].arg IN
            IF ClassOf(r.token) = "error" THEN r.how = "reject"
            ELSE /\ r.how = "resolve"
                 /\ r.api = "interrupt" => r.value = (ClassOf(r.token) = "done")
                 /\ r.api # "interrupt" =>
                      r.value = (ClassOf(r.token) = "running"))
  /\ [][\A api \in ExecApis, threadId \in Threads, instruction \in BOOLEAN :
          Exec(api, threadId, instruction) =>
            /\ Len(wire') = Len(wire) + 1
            /\ LET l == wire'[Len(wire')] IN
                 /\ SubSeq(l, 1, LeadingDigits(l) + 1)
                      = NumToStr(currentToken) \o <<"-">>
                 /\ SubSeq(l, LeadingDigits(l) + 3, Len(l))
                      = <<" --thread ">> \o NumToStr(threadId) \o <<NL>>
                 /\ Len(l) = LeadingDigits(l) + 5]_vars

\* continue has resolved true on ^running, or interrupt false on it
C17_Witness ==
  \E n \in 1..Len(Returned(events, ExecApis)) :
     LET r == Returned(events, ExecApis)[n].arg IN
     /\ ClassOf(r.token) = "running"
     /\ r.how = "resolve"
     /\ r.value = (r.api # "interrupt")

\* a non-empty text of decimal digits
IsDecimal(str) == str # <<>> /\ \A i \in 1..Len(str) : str[i] \in Digits

\* a text with a backslash put before every backslash and every quote
RECURSIVE Sanitized(_)
Sanitized(str) ==
  IF str = <<>> THEN <<>>
  ELSE (IF Head(str) \in {BACKSLASH, QUOTE} THEN <<BACKSLASH>> ELSE <<>>)
         \o <<Head(str)>> \o Sanitized(Tail(str))

\* the location as the specification gives it: *raw, or "file:line"
LocationText(breakpoint) ==
  IF breakpoint.raw # <<>> THEN <<"*">> \o Sanitized(breakpoint.raw)
  ELSE <<QUOTE>>
         \o Sanitized(IF breakpoint.file # <<>> THEN breakpoint.file
                      ELSE <<"<unknown>">>)
         \o <<":">> \o NumToStr(breakpoint.line) \o <<QUOTE>>

\* the step wrote one line: the next token, break-insert, the arguments
WroteInsert(arguments) ==
  wire' = Append(wire, NumToStr(currentToken)
                         \o <<"-", "break-insert ">> \o arguments \o <<NL>>)

\* C18: addBreakPoint with countCondition ">N", N decimal digits, writes
\* break-insert with -i N, and with countCondition "N", a decimal number
\* other than zero, with -t -i N; the location follows, *raw for a raw
\* address expression, otherwise the escaped file:line in quotes.
C18_CountArguments ==
  [][\A breakpoint \in Breakpoints :
       AddBreakPoint(breakpoint) =>
         LET cc == breakpoint.countCondition IN
         /\ (cc # <<>> /\ cc[1] = ">" /\ IsDecimal(Tail(cc))) =>
              WroteInsert(<<"-i ">> \o Tail(cc) \o <<" ">>
                            \o LocationText(breakpoint))
         /\ (IsDecimal(cc) /\ parseInt(cc) # 0) =>
              WroteInsert(<<"-t -i ">> \o NumToStr(parseInt(cc)) \o <<" ">>
                            \o LocationText(breakpoint))]_vars

\* break-insert -t -i 5 "a\"\\b.c:7" was written for countCondition "5"
C18_Witness ==
  /\ wire # <<>>
  /\ SubSeq(wire[Len(wire)], 2, Len(wire[Len(wire)])) =
       <<"-", "break-insert ", "-t -i ", "5", " ", QUOTE, "a", BACKSLASH,
         QUOTE, BACKSLASH, BACKSLASH, "b.c", ":", "7", QUOTE, NL>>

\* the warnings about the count condition among some events
CountWarnings(evs) ==
  SelectSeq(evs, LAMBDA x :
     /\ x.ev = "msg"
     /\ x.arg.type = "stderr"
     /\ x.arg.msg # <<>>
     /\ x.arg.msg[1] = "Unsupported break count expression: '")

\* C19: addBreakPoint with a countCondition that is not numeric (text
\* without a digit as well as mixed text) writes break-insert with -t,
\* emits exactly one warning and does not fail.
C19_NonNumericTemporary ==
  [][\A breakpoint \in Breakpoints :
       (/\ AddBreakPoint(breakpoint)
        /\ breakpoint.countCondition # <<>>
        /\ breakpoint.countCondition[1] # ">"
        /\ ~IsDecimal(breakpoint.countCondition)) =>
         /\ WroteInsert(<<"-t ">> \o LocationText(breakpoint))
         /\ Len(CountWarnings(events')) = 1
         /\ Returned(events', {"addBreakPoint"}) = <<>>]_vars

\* C20: removeBreakpoints with an empty list resolves true and changes
\* nothing in the engine: no line is written, no token is taken, the
\* pending table stays as it is; so any number of such calls leaves the
\* engine as one call does.
C20_EmptyRemoveNoEffect ==
  [][RemoveBreakpoints(<<>>) =>
       /\ Returned(events', {"removeBreakpoints"}) =
            <<Ev("returned", [api |-> "removeBreakpoints", token |-> 0,
                              how |-> "resolve", value |-> TRUE], 0)>>
       /\ UNCHANGED <<wire, currentToken, handlers, promises, calls, buffer,
                      output, process, connectAll, timers, listeners>>]_vars

\* removeBreakpoints([]) has resolved true while commands are pending
C20_Witness ==
  /\ Returned(events, {"removeBreakpoints"}) # <<>>
  /\ Returned(events, {"removeBreakpoints"})[1].arg.token = 0
  /\ Returned(events, {"removeBreakpoints"})[1].arg.value = TRUE
  /\ DOMAIN handlers # {}

(* ------------------- replies nobody waits for -------------------------- *)
\* the calls of resolve and reject among some events
SettleEvents(evs) == SelectSeq(evs, LAMBDA x : x.ev \in {"resolve", "reject"})

\* C21: a reply whose token is not in the pending table, because no command
\* took that token yet or because its command was already resolved, calls
\* no completion and leaves the pending table and the token counter as
\* they were.  (The step that processes the line records it in consumed.)
C21_StrayReplyNoEffect ==
  [][(/\ Len(consumed') = 1
       /\ consumed'[1].text \in ResultLines
       /\ parseMI(consumed'[1].text).token[1] \notin DOMAIN handlers) =>
        /\ SettleEvents(events') = <<>>
        /\ UNCHANGED <<handlers, currentToken, promises>>]_vars

\* a second reply for a resolved token was processed while another command
\* is pending
C21_Witness ==
  /\ Len(consumed) = 1
  /\ snap.text # <<>>
  /\ parseMI(consumed[1].text).resultRecords # Absent
  /\ parseMI(consumed[1].text).token[1] \in DOMAIN promises
  /\ promises[parseMI(consumed[1].text).token[1]] # <<>>
  /\ SettleEvents(events) = <<>>
  /\ DOMAIN handlers # {}

(* ------------------- errors during the launch -------------------------- *)
\* the step processed an error reply to the pending command of token t
ErrorReplyTo(t) ==
  /\ t \in DOMAIN handlers
  /\ Len(consumed') = 1
  /\ consumed'[1].text = Reply(t, "error")

\* C22: during connect an error reply to a setup command (tokens 2..n+1)
\* makes connect reject, and from then on connect stays rejected and
\* debug-ready is not announced; an error reply to the async-mode command
\* (token 1, sent with failure suppression) resolves that command, so that
\* connect resolves and announces debug-ready once, in the step in which
\* the last of its commands is resolved, whether that is the error reply
\* itself or a later reply.
C22_LaunchErrors ==
  /\ [](connectAll.state = "rejected" => DebugReady(events) = <<>>)
  /\ [][/\ \A t \in 2..(Len(wire) - 1) :
             ErrorReplyTo(t) => connectAll'.state = "rejected"
        /\ connectAll.state = "rejected" => connectAll'.state = "rejected"
        /\ ErrorReplyTo(1) =>
             /\ ResolvedByReply(1)'
             /\ connectAll.state = "pending" =>
                  connectAll'.state \in {"pending", "resolved"}
        /\ (/\ connectAll.state = "pending"
            /\ \A u \in DOMAIN promises' : ResolvedByReply(u)') =>
             /\ connectAll'.state = "resolved"
             /\ Len(DebugReady(events')) = 1]_vars

\* connect with a setup command has resolved and announced debug-ready in
\* the step that processed the error reply to the async-mode command
C22_Witness ==
  /\ connectAll.state = "resolved"
  /\ Len(DebugReady(events)) = 1
  /\ Len(wire) >= 3
  /\ Len(consumed) = 1
  /\ consumed[1].text = Reply(1, "error")

(* ------------------ breakpoints with a condition ----------------------- *)
\* the step processed, as a single line, a reply of class cls to the
\* pending command of token t, sent by the operation owner
ReplyStep(t, owner, cls) ==
  /\ t \in DOMAIN handlers
  /\ handlers[t].owner = owner
  /\ Len(consumed') = 1
  /\ \/ consumed'[1].text = Reply(t, cls)
     \/ cls = "done" /\ \E n \in BreakpointNumbers :
                           consumed'[1].text = Inserted(t, n)

\* the number a done reply reports, as break-condition is to carry it
Reported(t) ==
  IF \E n \in BreakpointNumbers : consumed'[1].text = Inserted(t, n)
  THEN CHOOSE n \in BreakpointNumbers : consumed'[1].text = Inserted(t, n)
  ELSE <<"NaN">>

\* the one settlement of the promise of addBreakPoint in the step
ResolvedTo(evs, value) ==
  /\ Len(Returned(evs, {"addBreakPoint"})) = 1
  /\ Returned(evs, {"addBreakPoint"})[1].arg.how = "resolve"
  /\ Returned(evs, {"addBreakPoint"})[1].arg.value = value

Settled(t, how, value) ==
  /\ Returned(events', {"addBreakPoint"}) # <<>>
  /\ Returned(events', {"addBreakPoint"})[1].arg.token = t
  /\ IF how = "resolve" THEN ResolvedTo(events', value)
     ELSE /\ Len(Returned(events', {"addBreakPoint"})) = 1
          /\ Returned(events', {"addBreakPoint"})[1].arg.how = "reject"

\* the lines the step wrote
NewLines == SubSeq(wire', Len(wire) + 1, Len(wire'))

IsConditionLine(l) ==
  LeadingDigits(l) > 0 /\ Len(l) >= LeadingDigits(l) + 2
    /\ l[LeadingDigits(l) + 2] = "break-condition "

\* C23: the number of a breakpoint is bound in the step that processes a
\* done reply to its break-insert, to the number the reply reports, and in
\* no other step; break-condition is written in that step, when the
\* breakpoint has a condition, with the reported number and the condition,
\* and in no other step; addBreakPoint resolves to the breakpoint on the
\* done reply to break-insert (no condition) or to break-condition, to null
\* on a reply of another class that is not error, and rejects on error.
C23_ConditionAfterInsert ==
  [][/\ \A t \in DOMAIN inserts :
          LET bp == inserts[t].breakpoint IN
          /\ ReplyStep(t, "addBreakPoint", "done") =>
               /\ inserts[t].number = Absent
               /\ inserts'[t].number = Some(Reported(t))
               /\ bp.condition = <<>> =>
                    NewLines = <<>> /\ Settled(t, "resolve", "breakpoint")
               /\ bp.condition # <<>> =>
                    /\ NewLines =
                         <<(NumToStr(currentToken)
                              \o <<"-", "break-condition ">> \o Reported(t)
                              \o <<" ">> \o bp.condition \o <<NL>>)>>
                    /\ Returned(events', {"addBreakPoint"}) = <<>>
          /\ ~ReplyStep(t, "addBreakPoint", "done") =>
               inserts'[t].number = inserts[t].number
          /\ ReplyStep(t, "addBreakPoint", "running") =>
               Settled(t, "resolve", "null")
          /\ ReplyStep(t, "addBreakPoint", "error") =>
               Settled(t, "reject", <<>>)
          /\ ReplyStep(t, "setBreakPointCondition", "done") =>
               /\ inserts[t].number # Absent
               /\ Settled(t, "resolve", "breakpoint")
          /\ ReplyStep(t, "setBreakPointCondition", "running") =>
               Settled(t, "resolve", "null")
          /\ ReplyStep(t, "setBreakPointCondition", "error") =>
               Settled(t, "reject", <<>>)
     /\ (\E i \in DOMAIN NewLines : IsConditionLine(NewLines[i])) =>
          \E t \in DOMAIN inserts :
             /\ ReplyStep(t, "addBreakPoint", "done")
             /\ inserts[t].breakpoint.condition # <<>>
     /\ ResolvedTo(events', "breakpoint") =>
          \E t \in DOMAIN inserts :
             \/ ReplyStep(t, "addBreakPoint", "done")
             \/ ReplyStep(t, "setBreakPointCondition", "done")]_vars

\* addBreakPoint has resolved to the breakpoint on the done reply to
\* break-condition 12 x>1, written for the number 12 the insertion reported
C23_Witness ==
  /\ ResolvedTo(events, "breakpoint")
  /\ \E i \in DOMAIN wire :
       /\ SubSeq(wire[i], 2, Len(wire[i])) =
            <<"-", "break-condition ", "1", "2", " ", "x>1", NL>>
       /\ consumed = <<[text |-> Reply(parseInt(<<wire[i][1]>>), "done"),
                        nl |-> TRUE]>>

(* -------------------- termination of abort ----------------------------- *)
\* C24: the promise a call of abort on a started engine returned is
\* eventually resolved, whatever the subprocess does: it replies to kill
\* and exit, it replies with an error, it exits without replying, it never
\* stops or never replies.
C24_AbortResolves ==
  \A i \in 1..MaxTimers :
     []((i \in DOMAIN timers /\ timers[i].by = "abort" /\ timers[i].pid) =>
          <>(i \in DOMAIN timers /\ timers[i].promise = "resolved"))

(* ----------------------- command sequences ----------------------------- *)
\* the one settlement of the promise of restart among some events
RestartSettled(evs, id, how) ==
  /\ Len(Returned(evs, {"restart"})) = 1
  /\ Returned(evs, {"restart"})[1].arg.token = id
  /\ Returned(evs, {"restart"})[1].arg.how = how

\* the step wrote the command of the list with the next token, or nothing
\* when the list is empty
WroteFirstOf(commands) ==
  NewLines = IF commands = <<>> THEN <<>>
             ELSE <<(NumToStr(currentToken) \o <<"-">> \o commands[1]
                       \o <<NL>>)>>

\* C25: restart(commands) writes the first command of the list, and each
\* further one in the step that processes the reply resolving the one
\* before; it writes nothing for an empty list and nothing after the last
\* command; it resolves true in the step that has nothing left to write
\* (at once for an empty list), and an error reply rejects it and writes
\* nothing.
C25_SequenceInOrder ==
  [][/\ \A commands \in SeqsUpTo(RestartCommands, MaxRestart) :
          Restart(commands) =>
            /\ WroteFirstOf(commands)
            /\ IF commands = <<>>
               THEN RestartSettled(events', currentToken, "resolve")
               ELSE Returned(events', {"restart"}) = <<>>
     /\ \A t \in DOMAIN sequences \cap DOMAIN handlers :
          /\ ReplyStep(t, "restart", "error") =>
               /\ NewLines = <<>>
               /\ RestartSettled(events', sequences[t].id, "reject")
          /\ (ReplyStep(t, "restart", "done")
                \/ ReplyStep(t, "restart", "running")) =>
               /\ WroteFirstOf(sequences[t].rest)
               /\ IF sequences[t].rest = <<>>
                  THEN RestartSettled(events', sequences[t].id, "resolve")
                  ELSE Returned(events', {"restart"}) = <<>>]_vars

(* ---------------- records that complete a command ---------------------- *)
\* C26: only a result record completes a pending command: every call of a
\* closure was made for a record with a result class, and a step that
\* takes an entry out of the pending table processed such a record with
\* the token of that entry; an exec, notify or stream record settles
\* nothing and removes nothing, whatever token it carries.
C26_OnlyResultRecords ==
  /\ [](\A i \in Settles : ReplyOf(i).resultRecords # Absent)
  /\ [][\A t \in DOMAIN handlers \ DOMAIN handlers' :
          \E k \in DOMAIN consumed' :
             /\ parseMI(consumed'[k].text).token = Some(t)
             /\ parseMI(consumed'[k].text).resultRecords # Absent]_vars

(* ----------------------- the pending table ----------------------------- *)
\* the tokens of the command lines written to the subprocess
WrittenTokens ==
  {parseInt(SubSeq(TokenLines[i], 1, LeadingDigits(TokenLines[i]))) :
     i \in DOMAIN TokenLines}

\* C27: the keys of the pending table are the tokens whose command line
\* was written and whose reply has not been processed yet (no closure call
\* for the token so far), and every key is below the next token; so a
\* sendCommand that could not write leaves no entry.
C27_PendingIsWrittenUnreplied ==
  /\ DOMAIN handlers = {t \in WrittenTokens : HandlerCalls(t) = 0}
  /\ \A t \in DOMAIN handlers : t < currentToken

====
